---- MODULE Spec2Model ----
(***************************************************************************)
(* Model of the OpenAI-compatible protocol adapter of otter               *)
(* (package llm: GenerateContent, generate, generateStream, sendRequest,  *)
(* convertResponse, buildFinalResponse, parseToolCallsFromText).          *)
(*                                                                         *)
(* Texts are sequences of one-character strings.  JSON is modelled at the  *)
(* level of a small token alphabet:                                        *)
(*   "{" "}"  object delimiters                                            *)
(*   "N"      the member  "name":"f"                                       *)
(*   "I"      the member  "id":"c9"                                        *)
(*   "A"      the key     "arguments":  , followed by an object value      *)
(*   " "      white space                                                  *)
(*   "x"      any other character (prose; not part of any JSON value)      *)
(* Members follow each other without separators.                           *)
(***************************************************************************)
EXTENDS Integers, Sequences, FiniteSets, TLC

\* ------------------------------------------------------------------ bounds
MaxSegs == 3      \* segments of the text handed to parseToolCallsFromText
MaxLines == 3     \* SSE lines read by one streaming invocation
ConcMaxLines == 2 \* SSE lines read by each of two concurrent invocations
MaxParts == 2     \* parts of the Turn handed to convertContent
MaxTurns == 2     \* Turns of a request when GenerateContent first gets it
MaxRepeat == 2    \* calls of GenerateContent with one request object
MaxTime == 3      \* clock readings time.Now() goes through
RefreshExpiration == 1 \* jwtConfig.RefreshExpiration, in clock readings
AccessExpiration == 1  \* jwtConfig.Expiration, in clock readings
MaxCreates == 1   \* rows of calendar_items when every create request is tried
MaxItems == 2     \* rows of calendar_items when two users work on them
MaxSequence == 1  \* sequence number of an item

\* ------------------------------------------------------------ text helpers
RECURSIVE Flatten(_)
Flatten(ss) == IF ss = <<>> THEN <<>> ELSE Head(ss) \o Flatten(Tail(ss))

\* Go slice s[a:b] with 0-based offsets.
Slice(s, a, b) == SubSeq(s, a + 1, b)

\* strings.Index(s[from:], "{"): offset relative to `from`, or -1.
IndexBrace(s, from) ==
    LET hits == {p \in (from + 1)..Len(s) : s[p] = "{"}
    IN  IF hits = {} THEN -1
        ELSE (CHOOSE p \in hits : \A q \in hits : p <= q) - 1 - from

\* strings.TrimSpace
TrimSpace(s) ==
    LET ns == {p \in 1..Len(s) : s[p] # " "}
    IN  IF ns = {} THEN <<>>
        ELSE SubSeq(s, CHOOSE p \in ns : \A q \in ns : p <= q,
                       CHOOSE p \in ns : \A q \in ns : p >= q)

\* ------------------------------------------------------------------- JSON
\* A Go map[string]any: nil, or a function from the keys present to values.
NilMap == [nil |-> TRUE, kv |-> <<>>]
MkMap(kv) == [nil |-> FALSE, kv |-> kv]
NoValue == [ok |-> FALSE, end |-> 0, kv |-> <<>>]

\* Scan one object value that starts at (1-based) position p of s.
\* ok: the value is syntactically complete; end: position of its closing
\* brace; kv: the decoded members (a later duplicate key wins).
RECURSIVE ScanObject(_, _), ScanMembers(_, _, _)
ScanObject(s, p) ==
    IF p > Len(s) \/ s[p] # "{" THEN NoValue ELSE ScanMembers(s, p + 1, <<>>)
ScanMembers(s, p, acc) ==
    IF p > Len(s) THEN NoValue
    ELSE IF s[p] = "}" THEN [ok |-> TRUE, end |-> p, kv |-> acc]
    ELSE IF s[p] = " " THEN ScanMembers(s, p + 1, acc)
    ELSE IF s[p] = "N" THEN ScanMembers(s, p + 1, ("name" :> "f") @@ acc)
    ELSE IF s[p] = "I" THEN ScanMembers(s, p + 1, ("id" :> "c9") @@ acc)
    ELSE IF s[p] = "A" THEN
        LET v == ScanObject(s, p + 1)
        IN  IF v.ok THEN ScanMembers(s, v.end + 1, ("arguments" :> MkMap(v.kv)) @@ acc)
            ELSE NoValue
    ELSE NoValue

\* The JSON literal null, as json.Marshal writes a nil map.
Null == <<"n", "u", "l", "l">>

\* json.Marshal of a decoded object: keys in sorted order, no white space.
RECURSIVE Marshal(_)
Marshal(m) ==
    IF m.nil THEN Null
    ELSE <<"{">>
         \o (IF "arguments" \in DOMAIN m.kv THEN <<"A">> \o Marshal(m.kv["arguments"]) ELSE <<>>)
         \o (IF "id" \in DOMAIN m.kv THEN <<"I">> ELSE <<>>)
         \o (IF "name" \in DOMAIN m.kv THEN <<"N">> ELSE <<>>)
         \o <<"}">>

\* json.Unmarshal([]byte(s), &args) with args a nil map[string]any: the whole
\* text must be one object, white space around it allowed, or the literal
\* null, which is no error and leaves the map nil.  On an error the
\* destination is left nil.
Unmarshal(s) ==
    LET ns == {p \in 1..Len(s) : s[p] # " "}
        first == CHOOSE p \in ns : \A q \in ns : p <= q
        v == ScanObject(s, first)
    IN  IF ns = {} THEN [err |-> TRUE, args |-> NilMap]
        ELSE IF TrimSpace(s) = Null THEN [err |-> FALSE, args |-> NilMap]
        ELSE IF v.ok /\ \A q \in (v.end + 1)..Len(s) : s[q] = " "
             THEN [err |-> FALSE, args |-> MkMap(v.kv)]
             ELSE [err |-> TRUE, args |-> NilMap]

\* json.NewDecoder(strings.NewReader(s)).Decode(&candidate) followed by
\* decoder.InputOffset(), for s starting with "{".  A value that does not scan
\* is an error reported before anything is consumed or stored: the offset
\* stays 0 and candidate stays nil.
Decode(s) ==
    LET v == ScanObject(s, 1)
    IN  IF v.ok THEN [err |-> FALSE, candidate |-> MkMap(v.kv), offset |-> v.end]
        ELSE [err |-> TRUE, candidate |-> NilMap, offset |-> 0]

\* -------------------------------------------------- parseToolCallsFromText
\* Ids "call_" + uuid.New().String()[:8] may come out as.
FabricatedIds == {"call_u1", "call_u2"}

ToolCall(id, type, name, arguments) ==
    [ID |-> id, Type |-> type, Name |-> name, Arguments |-> arguments]

\* One iteration of the scan loop (lines 800-852) from the loop state
\* st = [cursor, remainder, toolCalls, running]; fab is the id uuid.New gives.
ParseIteration(txt, st, fab) ==
    LET rel == IndexBrace(txt, st.cursor)
        braceIndex == rel + st.cursor
        rem1 == st.remainder \o Slice(txt, st.cursor, braceIndex)
        dec == Decode(Slice(txt, braceIndex, Len(txt)))
        endPos == braceIndex + dec.offset
        cand == dec.candidate
        hasName == ~cand.nil /\ "name" \in DOMAIN cand.kv
        hasArgs == ~cand.nil /\ "arguments" \in DOMAIN cand.kv
        argsStr == Marshal(cand.kv["arguments"])
        callID == IF ~cand.nil /\ "id" \in DOMAIN cand.kv THEN cand.kv["id"] ELSE fab
        next(c, r, t) == [cursor |-> c, remainder |-> r, toolCalls |-> t,
                          running |-> c < Len(txt)]
    IN  IF rel = -1
        THEN [cursor |-> st.cursor,
              remainder |-> st.remainder \o Slice(txt, st.cursor, Len(txt)),
              toolCalls |-> st.toolCalls, running |-> FALSE]
        ELSE IF ~dec.err
        THEN next(braceIndex + 1, rem1 \o Slice(txt, braceIndex, braceIndex + 1), st.toolCalls)
        ELSE IF hasName /\ hasArgs
        THEN next(endPos, rem1,
                  Append(st.toolCalls, ToolCall(callID, "function", cand.kv["name"], argsStr)))
        ELSE next(endPos, rem1 \o Slice(txt, braceIndex, endPos), st.toolCalls)

ParseStart(txt) ==
    [cursor |-> 0, remainder |-> <<>>, toolCalls |-> <<>>, running |-> Len(txt) > 0]

\* The segments texts are built from.
Segments ==
    { <<"x">>, <<" ">>, <<"{">>, <<"}">>, <<"N">>,
      <<"{", "}">>, <<"{", "N", "}">>,
      <<"{", "N", "A", "{", "}", "}">>,
      <<"{", "I", "N", "A", "{", "N", "}", "}">> }

Texts == {Flatten(ss) : ss \in UNION {[1..n -> Segments] : n \in 0..MaxSegs}}

\* ------------------------------------------------------------- wire shapes
\* *openAIUsage: nil, or the token counts of one usage object.
NilUsage == [nil |-> TRUE, PromptTokens |-> 0, CompletionTokens |-> 0, TotalTokens |-> 0]
Usage(p, c) == [nil |-> FALSE, PromptTokens |-> p, CompletionTokens |-> c, TotalTokens |-> p + c]

\* One entry of delta.tool_calls as the upstream sends it.  The wire entry
\* carries an index; openAIToolCall (lines 124-128) has no field for it.
Delta(index, id, type, name, arguments) ==
    [Index |-> index, ID |-> id, Type |-> type, Name |-> name, Arguments |-> arguments]

\* One line of the SSE body as generateStream classifies it (lines 509-532):
\*   nodata    no "data: " prefix
\*   done      data: [DONE]
\*   badjson   json.Unmarshal of the payload fails
\*   nochoices len(chunk.Choices) == 0
\*   nildelta  choices[0].delta absent
\*   chunk     choices[0].delta present
Line(kind, content, tcs, usage, finish) ==
    [kind |-> kind, content |-> content, toolCalls |-> tcs, usage |-> usage,
     finish |-> finish]
Chunk(content, tcs, usage, finish) == Line("chunk", content, tcs, usage, finish)

\* ------------------------------------------------------- generic responses
TextPart(t) == [kind |-> "text", text |-> t, id |-> "", name |-> "", args |-> NilMap]
FunctionCallPart(id, name, args) ==
    [kind |-> "functionCall", text |-> <<>>, id |-> id, name |-> name, args |-> args]

NoMetadata == [nil |-> TRUE, PromptTokenCount |-> 0, CandidatesTokenCount |-> 0,
               TotalTokenCount |-> 0]

\* A yielded pair (response, error): isErr tells which half is set.
Response(parts, partial, finish, meta) ==
    [isErr |-> FALSE, err |-> "", parts |-> parts, Partial |-> partial,
     FinishReason |-> finish, UsageMetadata |-> meta]
ErrorPair(e) ==
    [isErr |-> TRUE, err |-> e, parts |-> <<>>, Partial |-> FALSE,
     FinishReason |-> "", UsageMetadata |-> NoMetadata]

\* Mutant: the case for "tool_calls" is missing.
mapFinishReasonNoToolCalls(reason) ==
    CASE reason = "stop" -> "Stop"
      [] reason = "length" -> "MaxTokens"
      [] reason = "content_filter" -> "Safety"
      [] OTHER -> "Other"

mapFinishReason(reason) ==
    CASE reason = "stop" -> "Stop"
      [] reason = "length" -> "MaxTokens"
      [] reason = "tool_calls" -> "Stop"
      [] reason = "content_filter" -> "Safety"
      [] OTHER -> "Other"

buildUsageMetadata(u) ==
    IF u.nil THEN NoMetadata
    ELSE [nil |-> FALSE, PromptTokenCount |-> u.PromptTokens,
          CandidatesTokenCount |-> u.CompletionTokens,
          TotalTokenCount |-> u.TotalTokens]

\* The test of line 719 that makes the loop skip a tool call.
SkipToolCall(u) == ~u.err

\* The functionCall parts of buildFinalResponse (lines 717-727).
RECURSIVE FinalCallParts(_)
FinalCallParts(tcs) ==
    IF tcs = <<>> THEN <<>>
    ELSE LET tc == Head(tcs)
             u == Unmarshal(tc.Arguments)
         IN  IF SkipToolCall(u) THEN FinalCallParts(Tail(tcs))
             ELSE <<FunctionCallPart(tc.ID, tc.Name, u.args)>> \o FinalCallParts(Tail(tcs))

FinalTextParts(txt) == IF txt # <<>> THEN <<TextPart(txt)>> ELSE <<>>

\* Mutant: the assembled response is marked partial.
buildFinalResponsePartial(txt, tcs, u, finishReason) ==
    Response(FinalTextParts(txt) \o FinalCallParts(tcs), TRUE,
             mapFinishReason(finishReason), buildUsageMetadata(u))

buildFinalResponse(txt, tcs, u, finishReason) ==
    Response(FinalTextParts(txt) \o FinalCallParts(tcs), FALSE,
             mapFinishReason(finishReason), buildUsageMetadata(u))

\* Mutant: the partial response carries the text accumulated so far.
PartialTextWhole(txt, buffer) == buffer

\* The response of lines 537-545: only the text of this chunk.
PartialText(txt, buffer) == txt
PartialResponse(txt, buffer) ==
    Response(<<TextPart(PartialText(txt, buffer))>>, TRUE, "", NoMetadata)

\* ------------------------------------------------- tool-call accumulation
EmptyToolCall == ToolCall("", "", "", <<>>)

\* The accumulator slot a delta entry is merged into: idx of
\* `for idx, tc := range delta.ToolCalls`, the entry's position in the array.
Slot(pos, tc) == pos

RECURSIVE Pad(_, _)
Pad(acc, idx) == IF Len(acc) <= idx THEN Pad(Append(acc, EmptyToolCall), idx) ELSE acc

AppendArguments(old, fragment) == old \o fragment

\* Mutant: the id, type and name of the delta are assigned as they come.
MergeOneOverwrite(acc, idx, tc) ==
    LET padded == Pad(acc, idx)
        cur == padded[idx + 1]
    IN  [padded EXCEPT ![idx + 1] =
            ToolCall(tc.ID, tc.Type, tc.Name, AppendArguments(cur.Arguments, tc.Arguments))]

MergeOne(acc, idx, tc) ==
    LET padded == Pad(acc, idx)
        cur == padded[idx + 1]
    IN  [padded EXCEPT ![idx + 1] =
            ToolCall(IF tc.ID # "" THEN tc.ID ELSE cur.ID,
                     IF tc.Type # "" THEN tc.Type ELSE cur.Type,
                     IF tc.Name # "" THEN tc.Name ELSE cur.Name,
                     AppendArguments(cur.Arguments, tc.Arguments))]

\* Lines 552-568: the deltas of one chunk, from array position pos on.
RECURSIVE MergeDeltas(_, _, _)
MergeDeltas(acc, deltas, pos) ==
    IF pos >= Len(deltas) THEN acc
    ELSE MergeDeltas(MergeOne(acc, Slot(pos, deltas[pos + 1]), deltas[pos + 1]),
                     deltas, pos + 1)

\* ------------------------------------------------------------ input alphabet
U1 == Usage(1, 1)
U2 == Usage(2, 1)

E0 == Delta(0, "c0", "function", "f", <<"{">>)
F0 == Delta(0, "", "", "", <<"}">>)
E1 == Delta(1, "c1", "function", "g", <<"{">>)
F1 == Delta(1, "", "", "", <<"}">>)

NonChunkLines ==
    { Line("nodata", <<>>, <<>>, NilUsage, ""),
      Line("done", <<>>, <<>>, NilUsage, ""),
      Line("badjson", <<>>, <<>>, NilUsage, ""),
      Line("nochoices", <<>>, <<>>, U1, ""),
      Line("nildelta", <<>>, <<>>, NilUsage, "") }

ChunkLines ==
    { Chunk(<<"a">>, <<>>, NilUsage, ""),
      Chunk(<<"b">>, <<>>, NilUsage, ""),
      Chunk(<<>>, <<E0>>, NilUsage, ""),
      Chunk(<<>>, <<F0>>, NilUsage, ""),
      Chunk(<<>>, <<E1>>, NilUsage, ""),
      Chunk(<<>>, <<F1>>, NilUsage, ""),
      Chunk(<<>>, <<E0, E1>>, NilUsage, ""),
      Chunk(<<>>, <<F0, F1>>, NilUsage, ""),
      Chunk(<<>>, <<>>, U1, ""),
      Chunk(<<>>, <<>>, U2, ""),
      Chunk(<<>>, <<>>, NilUsage, "stop"),
      Chunk(<<>>, <<>>, NilUsage, "length"),
      Chunk(<<>>, <<>>, NilUsage, "content_filter"),
      Chunk(<<>>, <<>>, NilUsage, "eos"),
      Chunk(<<>>, <<F0>>, NilUsage, "tool_calls"),
      Chunk(<<"b">>, <<>>, U2, "stop") }

Lines == NonChunkLines \cup ChunkLines

\* The lines two concurrent invocations draw from.
ConcLines ==
    { Chunk(<<"a">>, <<>>, NilUsage, ""),
      Chunk(<<>>, <<E0>>, U1, ""),
      Chunk(<<"b">>, <<F0>>, U2, "tool_calls"),
      Line("done", <<>>, <<>>, NilUsage, "") }

\* HTTP status codes the upstream answers with.
StatusOK == 200
Statuses == {StatusOK, 201, 500}

Transport(neterr, status) == [neterr |-> neterr, status |-> status]
Transports == {Transport(TRUE, 0)} \cup {Transport(FALSE, st) : st \in Statuses}

\* ------------------------------------------------------------------ requests
\* A genai.Part.  kind names the field that is set ("text", "inline", "file",
\* "functionCall", "functionResponse"); text is Text, the bytes of InlineData
\* or the FileURI; mime is InlineData.MIMEType as <<type, subtype>>; id, name
\* and args are those of the FunctionCall or FunctionResponse (args its Args
\* or Response map); marshalable tells whether json.Marshal of args succeeds.
GenaiPart(kind, txt, mime, id, name, args, marshalable) ==
    [kind |-> kind, text |-> txt, mime |-> mime, id |-> id, name |-> name,
     args |-> args, marshalable |-> marshalable]
NoMime == <<"", "">>

\* A part of the given kind with some fixed payload.
Part(kind, marshalable) ==
    IF kind = "text" THEN GenaiPart(kind, <<"a">>, NoMime, "", "", NilMap, marshalable)
    ELSE GenaiPart(kind, <<>>, NoMime, "c0", "f", MkMap(<<>>), marshalable)
Turn(role, parts) == [Role |-> role, Parts |-> parts]

\* genai.NewContentFromText
NewContentFromText(txt, role) ==
    Turn(role, <<GenaiPart("text", txt, NoMime, "", "", NilMap, TRUE)>>)

\* "Handle the requests as specified in the System Instruction." and
\* "Continue processing previous requests as instructed. Exit or provide a
\* summary if no more outputs are needed."
HandleInstruction == <<"H">>
ContinueInstruction == <<"C">>

Requests ==
    { <<>>,
      <<Turn("user", <<Part("text", TRUE)>>)>>,
      <<Turn("user", <<Part("text", TRUE)>>),
        Turn("model", <<Part("functionCall", TRUE)>>),
        Turn("user", <<Part("functionResponse", TRUE)>>)>>,
      <<Turn("model", <<Part("functionCall", FALSE)>>)>>,
      <<Turn("user", <<Part("functionResponse", FALSE), Part("functionCall", TRUE)>>)>>,
      <<Turn("model", <<Part("functionCall", FALSE), Part("functionResponse", TRUE)>>)>> }

\* Mutant: the instruction is appended to an empty request only.
maybeAppendUserContentEmptyOnly(contents) ==
    IF Len(contents) = 0 THEN Append(contents, NewContentFromText(HandleInstruction, "user"))
    ELSE contents

\* The value of req.Contents after the call.
maybeAppendUserContent(contents) ==
    IF Len(contents) = 0 THEN Append(contents, NewContentFromText(HandleInstruction, "user"))
    ELSE IF contents[Len(contents)].Role = "user"
         THEN Append(contents, NewContentFromText(ContinueInstruction, "user"))
         ELSE contents

\* Whether convertContent returns an error for this Turn (lines 249-252, 321-324).
convertContentFails(turn) ==
    LET ps == turn.Parts
        isResp(k) == ps[k].kind = "functionResponse"
    IN  IF \E k \in 1..Len(ps) : isResp(k)
        THEN \E k \in 1..Len(ps) : isResp(k) /\ ~ps[k].marshalable
        ELSE \E k \in 1..Len(ps) : ps[k].kind = "functionCall" /\ ~ps[k].marshalable

convertRequestFails(contents) ==
    \E k \in 1..Len(contents) : convertContentFails(contents[k])

\* ------------------------------------------------------------ convertContent
\* openAIMessage.Content (an `any`): nil, a string, or an array of sub-parts.
NoContent == [kind |-> "nil", text |-> <<>>, items |-> <<>>]
StringContent(t) == [kind |-> "string", text |-> t, items |-> <<>>]
ArrayContent(items) == [kind |-> "array", text |-> <<>>, items |-> items]

openAIMessage(role, content, tcs, toolCallID) ==
    [Role |-> role, Content |-> content, ToolCalls |-> tcs, ToolCallID |-> toolCallID]

\* base64.StdEncoding.EncodeToString, byte by byte (texts here are single bytes).
Base64Byte(c) == IF c = "d" THEN "ZA==" ELSE IF c = "a" THEN "YQ==" ELSE "Pw=="
Base64(data) == [k \in 1..Len(data) |-> Base64Byte(data[k])]

\* fmt.Sprintf("data:%s;base64,%s", mimeType, base64Data)
DataURI(mime, data) == <<"data:", mime[1], "/", mime[2], ";base64,">> \o Base64(data)

\* One element of contentArray: {"type": t, t': {key: value}}.
ContentItem(type, key, value) == [type |-> type, key |-> key, value |-> value]

\* Mutant: the texts are joined without a separator.
RECURSIVE JoinNoSeparator(_)
JoinNoSeparator(ss) == IF ss = <<>> THEN <<>> ELSE Head(ss) \o JoinNoSeparator(Tail(ss))

\* strings.Join(ss, "\n")
RECURSIVE Join(_)
Join(ss) ==
    IF ss = <<>> THEN <<>>
    ELSE IF Len(ss) = 1 THEN Head(ss)
    ELSE Head(ss) \o <<"\n">> \o Join(Tail(ss))

\* Lines 241-244.
MapRole(role) == IF role = "model" THEN "assistant" ELSE role

\* Lines 254-257 and 326-329: the part's id, or "call_" + a fresh uuid.
CallID(id, fab) == IF id = "" THEN fab ELSE id

\* Mutant: a tool message is built for every part of the Turn.
IsFunctionResponseAny(part) == TRUE

\* part.FunctionResponse != nil
IsFunctionResponse(part) == part.kind = "functionResponse"

\* Lines 246-264: the tool messages of the Turn, or the first marshal error;
\* fabs[k] is the id uuid.New gives at part k.
RECURSIVE ToolMessages(_, _, _)
ToolMessages(parts, fabs, k) ==
    IF k > Len(parts) THEN [err |-> "", msgs |-> <<>>]
    ELSE IF ~IsFunctionResponse(parts[k]) THEN ToolMessages(parts, fabs, k + 1)
    ELSE IF ~parts[k].marshalable
    THEN [err |-> "failed to marshal function response", msgs |-> <<>>]
    ELSE LET rest == ToolMessages(parts, fabs, k + 1)
             msg == openAIMessage("tool", StringContent(Marshal(parts[k].args)), <<>>,
                                  CallID(parts[k].id, fabs[k]))
         IN  IF rest.err # "" THEN rest
             ELSE [err |-> "", msgs |-> <<msg>> \o rest.msgs]

\* Lines 274-339: textParts, contentArray and toolCalls after the parts from
\* k on, or the first marshal error.
RECURSIVE ScanParts(_, _, _, _)
ScanParts(parts, fabs, k, acc) ==
    IF k > Len(parts) \/ acc.err # "" THEN acc
    ELSE LET part == parts[k]
             addText(t) == [acc EXCEPT !.textParts = Append(@, t)]
             addItem(it) == [acc EXCEPT !.contentArray = Append(@, it)]
             uri == DataURI(part.mime, part.text)
             next ==
               IF part.kind = "text" /\ part.text # <<>> THEN addText(part.text)
               ELSE IF part.kind = "inline" /\ Len(part.text) > 0
               THEN IF part.mime[1] = "image" THEN addItem(ContentItem("image_url", "url", uri))
                    ELSE IF part.mime[1] = "audio"
                    THEN addItem(ContentItem("audio_url", "url", uri))
                    ELSE IF part.mime[1] = "video"
                    THEN addItem(ContentItem("video_url", "url", uri))
                    ELSE IF part.mime = <<"application", "pdf">>
                            \/ part.mime = <<"application", "json">>
                    THEN addItem(ContentItem("file", "flile_data", uri))
                    ELSE IF part.mime[1] = "text" THEN addText(part.text)
                    ELSE acc
               ELSE IF part.kind = "file" /\ part.text # <<>>
               THEN addItem(ContentItem("file", "file_id", part.text))
               ELSE IF part.kind = "functionCall"
               THEN IF ~part.marshalable
                    THEN [acc EXCEPT !.err = "failed to marshal function call arguments"]
                    ELSE [acc EXCEPT !.toolCalls =
                             Append(@, ToolCall(CallID(part.id, fabs[k]), "function",
                                                part.name, Marshal(part.args)))]
               ELSE acc
         IN  ScanParts(parts, fabs, k + 1, next)

\* Lines 348-354.
TextMaps(textParts) ==
    [k \in 1..Len(textParts) |-> ContentItem("text", "text", textParts[k])]

\* Lines 341-360: the one message of a Turn without function responses.
BuildMessage(role, acc) ==
    openAIMessage(role,
        IF Len(acc.toolCalls) > 0
        THEN IF Len(acc.textParts) > 0 THEN StringContent(Join(acc.textParts)) ELSE NoContent
        ELSE IF Len(acc.contentArray) > 0
        THEN ArrayContent(TextMaps(acc.textParts) \o acc.contentArray)
        ELSE IF Len(acc.textParts) > 0 THEN StringContent(Join(acc.textParts))
        ELSE NoContent,
        acc.toolCalls, "")

\* convertContent (lines 236-361): the error ("" for none) and the messages.
convertContent(content, fabs) ==
    LET tool == ToolMessages(content.Parts, fabs, 1)
        acc == ScanParts(content.Parts, fabs, 1,
                         [err |-> "", textParts |-> <<>>, contentArray |-> <<>>,
                          toolCalls |-> <<>>])
    IN  IF Len(content.Parts) = 0 THEN [err |-> "", msgs |-> <<>>]
        ELSE IF tool.err # "" THEN tool
        ELSE IF Len(tool.msgs) > 0 THEN tool
        ELSE IF acc.err # "" THEN [err |-> acc.err, msgs |-> <<>>]
        ELSE [err |-> "", msgs |-> <<BuildMessage(MapRole(content.Role), acc)>>]

\* extractTextFromContent (lines 363-376); sys is nil (<<>>) or one Content.
extractTextFromContent(sys) ==
    IF sys = <<>> THEN <<>>
    ELSE LET ps == sys[1].Parts
             isText(k) == ps[k].kind = "text" /\ ps[k].text # <<>>
             RECURSIVE texts(_)
             texts(k) == IF k > Len(ps) THEN <<>>
                         ELSE (IF isText(k) THEN <<ps[k].text>> ELSE <<>>) \o texts(k + 1)
         IN  Join(texts(1))

\* Lines 189-195: the messages of the Turns from k on, or the first error.
RECURSIVE ConvertContents(_, _, _)
ConvertContents(contents, fabss, k) ==
    IF k > Len(contents) THEN [err |-> "", msgs |-> <<>>]
    ELSE LET one == convertContent(contents[k], fabss[k])
             rest == ConvertContents(contents, fabss, k + 1)
         IN  IF one.err # "" THEN [err |-> "failed to convert content", msgs |-> <<>>]
             ELSE IF rest.err # "" THEN rest
             ELSE [err |-> "", msgs |-> one.msgs \o rest.msgs]

\* convertRequest (lines 173-234), as far as openaiReq.Messages goes; r is
\* the request: SystemInstruction (nil or one Content) and Contents.
convertRequest(r, fabss) ==
    LET sysContent == extractTextFromContent(r.sys)
        sysMsgs == IF sysContent # <<>>
                   THEN <<openAIMessage("system", StringContent(sysContent), <<>>, "")>>
                   ELSE <<>>
        conv == ConvertContents(r.Contents, fabss, 1)
    IN  IF conv.err # "" THEN conv ELSE [err |-> "", msgs |-> sysMsgs \o conv.msgs]

\* ------------------------------------------------- inputs of the converter
FC(id, args, marshalable) == GenaiPart("functionCall", <<>>, NoMime, id, "f", args, marshalable)
FR(id, args, marshalable) ==
    GenaiPart("functionResponse", <<>>, NoMime, id, "f", args, marshalable)
TextOf(t) == GenaiPart("text", t, NoMime, "", "", NilMap, TRUE)
Inline(type, subtype) == GenaiPart("inline", <<"d">>, <<type, subtype>>, "", "", NilMap, TRUE)

\* The parts Turns are built from.
PartPool ==
    { TextOf(<<"a">>), TextOf(<<"b">>), TextOf(<<>>),
      Inline("image", "png"), Inline("text", "plain"), Inline("application", "zip"),
      Inline("application", "pdf"),
      GenaiPart("file", <<"u">>, NoMime, "", "", NilMap, TRUE),
      FC("c0", MkMap("name" :> "f"), TRUE), FC("", MkMap(<<>>), TRUE), FC("", NilMap, TRUE),
      FC("c1", NilMap, FALSE),
      FR("c0", MkMap("name" :> "f"), TRUE), FR("", NilMap, TRUE), FR("c1", NilMap, FALSE) }

Roles == {"user", "model"}
Turns == {Turn(role, ps) : role \in Roles, ps \in UNION {[1..n -> PartPool] : n \in 0..MaxParts}}

\* The Turns and system instructions requests are built from.
RequestTurns ==
    { Turn("user", <<TextOf(<<"a">>)>>),
      Turn("model", <<TextOf(<<"b">>), FC("", MkMap(<<>>), TRUE)>>),
      Turn("user", <<FR("c0", MkMap("name" :> "f"), TRUE)>>),
      Turn("model", <<FC("c1", NilMap, FALSE)>>),
      Turn("user", <<>>),
      Turn("model", <<TextOf(<<"b">>)>>) }
SystemInstructions ==
    { <<>>, <<Turn("system", <<>>)>>, <<NewContentFromText(<<"s">>, "system")>>,
      <<Turn("system", <<TextOf(<<"s">>), TextOf(<<"a">>)>>)>> }
Request(sys, contents) == [sys |-> sys, Contents |-> contents]
TranslatedRequests ==
    {Request(sys, contents) :
        sys \in SystemInstructions,
        contents \in UNION {[1..n -> RequestTurns] : n \in 0..MaxTurns}}

\* The ids uuid.New may give while one Turn is converted: one for every part
\* that has none (fabs[k] is not looked at for the other parts).
NeedsID(part) == part.kind \in {"functionCall", "functionResponse"} /\ part.id = ""
FabChoices(turn) ==
    {fabs \in [1..Len(turn.Parts) -> FabricatedIds] :
        \A k \in 1..Len(turn.Parts) : ~NeedsID(turn.Parts[k]) => fabs[k] = "call_u1"}

\* The same for the Turns of contents from k on, one choice per Turn.
RECURSIVE FabsFrom(_, _)
FabsFrom(contents, k) ==
    IF k > Len(contents) THEN {<<>>}
    ELSE {<<fabs>> \o rest : fabs \in FabChoices(contents[k]), rest \in FabsFrom(contents, k + 1)}
FabsFor(contents) == FabsFrom(contents, 1)

\* sendRequest (lines 597-628): the error it returns ("" for none) and the
\* state it leaves the response body in.
sendRequest(t) ==
    IF t.neterr THEN [err |-> "failed to send request", body |-> "none"]
    ELSE IF t.status # StatusOK THEN [err |-> "API error", body |-> "closed"]
    ELSE [err |-> "", body |-> "open"]

\* ------------------------------------------------------- synchronous decoder
\* The body of a 200 answer to a non-streaming request.
SyncBody(decodes, choices, hasMessage, reasoning, content, tcs, finish, u) ==
    [decodes |-> decodes, choices |-> choices, hasMessage |-> hasMessage,
     reasoning |-> reasoning, content |-> content, toolCalls |-> tcs,
     finish |-> finish, usage |-> u]

SyncBodies ==
    { SyncBody(FALSE, 0, FALSE, <<>>, <<>>, <<>>, "", NilUsage),
      SyncBody(TRUE, 0, FALSE, <<>>, <<>>, <<>>, "", NilUsage),
      SyncBody(TRUE, 1, FALSE, <<>>, <<>>, <<>>, "stop", NilUsage),
      SyncBody(TRUE, 1, TRUE, <<>>, <<"a">>, <<>>, "stop", U1),
      SyncBody(TRUE, 1, TRUE, <<<<"r">>>>, <<"a">>, <<>>, "length", NilUsage),
      SyncBody(TRUE, 1, TRUE, <<>>, <<"x", "{", "N", "A", "{", "}", "}">>, <<>>, "stop", NilUsage),
      SyncBody(TRUE, 1, TRUE, <<>>, <<"x", "{">>, <<>>, "stop", NilUsage),
      SyncBody(TRUE, 1, TRUE, <<>>, <<>>, <<ToolCall("c0", "function", "f", <<"{", "}">>)>>,
               "tool_calls", U1),
      SyncBody(TRUE, 1, TRUE, <<>>, <<>>, <<ToolCall("c0", "function", "f", <<"{">>)>>,
               "tool_calls", NilUsage),
      SyncBody(TRUE, 1, TRUE, <<>>, <<"a">>, <<>>, "content_filter", NilUsage),
      SyncBody(TRUE, 1, TRUE, <<>>, <<"a">>, <<>>, "eos", NilUsage),
      SyncBody(TRUE, 1, TRUE, <<>>, <<>>, <<ToolCall("", "function", "f", <<"{", "}">>)>>,
               "tool_calls", NilUsage),
      SyncBody(TRUE, 1, TRUE, <<<<"r">>, <<>>, <<"s">>>>, <<"a">>,
               <<ToolCall("c0", "function", "f", <<"{", "}">>),
                 ToolCall("c1", "function", "g", <<"{", "}">>)>>,
               "tool_calls", U1),
      SyncBody(TRUE, 1, TRUE, <<>>, <<"{", "N", "A", "{", "}", "}">>,
               <<ToolCall("c0", "function", "f", <<"{", "}">>)>>, "tool_calls", NilUsage) }

\* parseToolCallsFromText run to its return.  An iteration that leaves the
\* loop state as it found it repeats for ever: the call does not return.
RECURSIVE ParseRun(_, _, _)
ParseRun(txt, st, fab) ==
    IF ~st.running
    THEN [hangs |-> FALSE, toolCalls |-> st.toolCalls, remainder |-> TrimSpace(st.remainder)]
    ELSE LET n == ParseIteration(txt, st, fab)
         IN  IF n = st THEN [hangs |-> TRUE, toolCalls |-> <<>>, remainder |-> <<>>]
             ELSE ParseRun(txt, n, fab)

parseToolCallsFromText(txt, fab) ==
    IF txt = <<>> THEN [hangs |-> FALSE, toolCalls |-> <<>>, remainder |-> <<>>]
    ELSE ParseRun(txt, ParseStart(txt), fab)

ThoughtPart(t) == [kind |-> "thought", text |-> t, id |-> "", name |-> "", args |-> NilMap]

\* extractReasoningParts for a reasoning_content given as the list of its texts.
RECURSIVE extractReasoningParts(_)
extractReasoningParts(rs) ==
    IF rs = <<>> THEN <<>>
    ELSE (IF Head(rs) # <<>> THEN <<ThoughtPart(Head(rs))>> ELSE <<>>)
         \o extractReasoningParts(Tail(rs))

\* Lines 686-696: the parts, or the first unmarshal error.
RECURSIVE SyncCallParts(_)
SyncCallParts(tcs) ==
    IF tcs = <<>> THEN [err |-> FALSE, parts |-> <<>>]
    ELSE LET u == Unmarshal(Head(tcs).Arguments)
             rest == SyncCallParts(Tail(tcs))
         IN  IF u.err \/ rest.err THEN [err |-> TRUE, parts |-> <<>>]
             ELSE [err |-> FALSE,
                   parts |-> <<FunctionCallPart(Head(tcs).ID, Head(tcs).Name, u.args)>>
                             \o rest.parts]

\* Mutant: the text part is put before the reasoning parts.
convertResponseTextFirst(r, fab) ==
    LET parsed == parseToolCallsFromText(r.content, fab)
        tryParse == Len(r.toolCalls) = 0 /\ r.content # <<>>
        replaced == tryParse /\ ~parsed.hangs /\ Len(parsed.toolCalls) > 0
        tcs == IF replaced THEN parsed.toolCalls ELSE r.toolCalls
        textContent == IF replaced THEN parsed.remainder ELSE r.content
        calls == SyncCallParts(tcs)
    IN  IF r.choices = 0 THEN [hangs |-> FALSE, pair |-> ErrorPair("no choices in response")]
        ELSE IF ~r.hasMessage
        THEN [hangs |-> FALSE, pair |-> ErrorPair("no message in response")]
        ELSE IF tryParse /\ parsed.hangs THEN [hangs |-> TRUE, pair |-> ErrorPair("")]
        ELSE IF calls.err
        THEN [hangs |-> FALSE, pair |-> ErrorPair("failed to unmarshal function arguments")]
        ELSE [hangs |-> FALSE,
              pair |-> Response(FinalTextParts(textContent)
                                \o extractReasoningParts(r.reasoning) \o calls.parts,
                                FALSE, mapFinishReason(r.finish),
                                buildUsageMetadata(r.usage))]

\* convertResponse (lines 648-708): hangs, or the pair it returns.
convertResponse(r, fab) ==
    LET parsed == parseToolCallsFromText(r.content, fab)
        tryParse == Len(r.toolCalls) = 0 /\ r.content # <<>>
        replaced == tryParse /\ ~parsed.hangs /\ Len(parsed.toolCalls) > 0
        tcs == IF replaced THEN parsed.toolCalls ELSE r.toolCalls
        textContent == IF replaced THEN parsed.remainder ELSE r.content
        calls == SyncCallParts(tcs)
    IN  IF r.choices = 0 THEN [hangs |-> FALSE, pair |-> ErrorPair("no choices in response")]
        ELSE IF ~r.hasMessage
        THEN [hangs |-> FALSE, pair |-> ErrorPair("no message in response")]
        ELSE IF tryParse /\ parsed.hangs THEN [hangs |-> TRUE, pair |-> ErrorPair("")]
        ELSE IF calls.err
        THEN [hangs |-> FALSE, pair |-> ErrorPair("failed to unmarshal function arguments")]
        ELSE [hangs |-> FALSE,
              pair |-> Response(extractReasoningParts(r.reasoning)
                                \o FinalTextParts(textContent) \o calls.parts,
                                FALSE, mapFinishReason(r.finish),
                                buildUsageMetadata(r.usage))]

Calls == {1, 2}

VARIABLES
    text, scan, returned,   \* parseToolCallsFromText: argument, loop state, returned
    pc,          \* per invocation: where the iterator of GenerateContent stands
    body,        \* per invocation: the HTTP response body: "none", "open", "closed"
    textbuffer,  \* per frame: strings.Builder of generateStream
    toolCalls,   \* per frame: []openAIToolCall of generateStream
    usage,       \* per frame: *openAIUsage of generateStream
    input,       \* per invocation: the SSE lines read so far
    yielded,     \* per invocation: the pairs handed to yield, each with the consumer's answer
    dropped,     \* per invocation: errors the code met and did not yield
    stream,      \* per invocation: the stream argument of GenerateContent
    how,         \* per invocation: how generateStream returned ("" while it has not)
    sent,        \* per invocation: what httpClient.Do answered, one entry per request sent
    answer,      \* per invocation: the body doRequest read (none, or one)
    content,     \* convertContent: its argument
    converted,   \* convertContent: what its last two calls returned
    req,         \* the caller's request object: SystemInstruction and Contents
    handed,      \* req.Contents as it was at each call of GenerateContent
    wire,        \* what convertRequest returned at each call of GenerateContent
    refreshTokens, \* auth: the rows of table refresh_tokens
    now,         \* auth: time.Now()
    resp,        \* auth: the answer to the last request
    created,     \* auth: the rows Login has created
    revoked,     \* auth: the created tokens a Logout or LogoutAll answered 200 has revoked
    ctx,         \* middleware: the gin.Context after AuthRequired ran on the last request
    items,       \* calendar: the rows of table calendar_items
    cal          \* calendar: the last call of the service, its answer, the table before it

pvars == <<text, scan, returned>>
svars == <<pc, body, textbuffer, toolCalls, usage, input, yielded, dropped, stream, how,
           sent, answer>>
cvars == <<content, converted, req, handed, wire>>
avars == <<refreshTokens, now, resp, created, revoked>>
mvars == <<ctx>>
kvars == <<items, cal>>
ovars == <<content, converted, req, handed, wire, refreshTokens, now, resp, created, revoked,
           ctx, items, cal>>
vars == <<text, scan, returned, pc, body, textbuffer, toolCalls, usage, input, yielded,
          dropped, stream, how, sent, answer, content, converted, req, handed, wire,
          refreshTokens, now, resp, created, revoked, ctx, items, cal>>

\* Mutant: the locals are package-level, one frame for every invocation.
FrameShared(i) == 1

\* The frame holding the locals (lines 504-506) of invocation i: its own.
Frame(i) == i

StreamIdle ==
    /\ body = [i \in Calls |-> "none"]
    /\ textbuffer = [i \in Calls |-> <<>>]
    /\ toolCalls = [i \in Calls |-> <<>>]
    /\ usage = [i \in Calls |-> NilUsage]
    /\ input = [i \in Calls |-> <<>>]
    /\ yielded = [i \in Calls |-> <<>>]
    /\ dropped = [i \in Calls |-> {}]
    /\ how = [i \in Calls |-> ""]
    /\ sent = [i \in Calls |-> <<>>]
    /\ answer = [i \in Calls |-> <<>>]

ConvertIdle ==
    /\ content = Turn("user", <<>>)
    /\ converted = <<>>
    /\ req = Request(<<>>, <<>>)
    /\ handed = <<>>
    /\ wire = <<>>

\* An answer of the auth handlers: the handler, the HTTP status, the refresh
\* token of the request (of the answer, for Login), the access token issued
\* (none, or one, naming its user) and the time of the answer.
AuthResponse(op, status, token, access, at) ==
    [op |-> op, status |-> status, token |-> token, access |-> access, at |-> at]

AuthIdle ==
    /\ refreshTokens = {}
    /\ now = 0
    /\ resp = AuthResponse("", 0, "", <<>>, 0)
    /\ created = {}
    /\ revoked = {}

\* What AuthRequired left in the gin.Context of a request: the Authorization
\* header it read, the clock, the status and error written (0 and "" when
\* nothing was written), whether c.Abort() and c.Next() were called and the
\* keys c.Set stored (none, or one record of the three).
Context(header, at, status, error, aborted, next, keys) ==
    [header |-> header, at |-> at, status |-> status, error |-> error,
     aborted |-> aborted, next |-> next, keys |-> keys]

NoContext == Context(<<>>, 0, 0, "idle", FALSE, FALSE, <<>>)

MiddlewareIdle == ctx = NoContext

\* A call of the calendar service: the method, the userID and id arguments,
\* the request, the error returned ("" for nil), the items returned, whether
\* the repository was called, and the table as it was before the call.
Call(op, userID, id, request, err, out, repo, before) ==
    [op |-> op, userID |-> userID, id |-> id, request |-> request, err |-> err,
     out |-> out, repo |-> repo, before |-> before]

NoCall == Call("", 0, 0, <<>>, "", <<>>, FALSE, <<>>)

CalendarIdle ==
    /\ items = <<>>
    /\ cal = NoCall

OtherIdle == ConvertIdle /\ AuthIdle /\ MiddlewareIdle /\ CalendarIdle

ExtractIdle ==
    /\ text = <<>>
    /\ scan = ParseStart(<<>>)
    /\ returned = TRUE

ExtractInit ==
    /\ text \in Texts
    /\ scan = ParseStart(text)
    /\ returned = FALSE
    /\ pc = [i \in Calls |-> "off"]
    /\ stream = [i \in Calls |-> FALSE]
    /\ StreamIdle
    /\ OtherIdle

\* One pass through the body of the for loop.
ScanLoop ==
    /\ ~returned /\ scan.running
    /\ \E fab \in FabricatedIds : scan' = ParseIteration(text, scan, fab)
    /\ UNCHANGED <<text, returned>>
    /\ UNCHANGED svars
    /\ UNCHANGED ovars

\* return toolCalls, strings.TrimSpace(remainder.String())
ScanReturn ==
    /\ ~returned /\ ~scan.running
    /\ returned' = TRUE
    /\ UNCHANGED <<text, scan>>
    /\ UNCHANGED svars
    /\ UNCHANGED ovars

ExtractNext == ScanLoop \/ ScanReturn

SpecExtract == ExtractInit /\ [][ExtractNext]_vars

\* ------------------------------------------------------------ GenerateContent
\* yield(resp, err): the pair, with the consumer's answer.
Emit(ys, pair, cont) == Append(ys, [pair |-> pair, cont |-> cont])

\* Mutant: the early-stop return leaves the body open.
BodyAfterReturnLeak(path) == IF path = "stop" THEN "open" ELSE "closed"

\* The body once the producer has returned past `defer httpResp.Body.Close()`
\* (line 501); path names the return: "stop", "final", "error", "end".
BodyAfterReturn(path) == "closed"

\* Errors buildFinalResponse meets and does not return (lines 719-722).
DroppedBy(tcs) ==
    IF \E k \in 1..Len(tcs) : Unmarshal(tcs[k].Arguments).err
    THEN {"failed to unmarshal function arguments"} ELSE {}

\* Lines 82-97: the request is converted when GenerateContent is called and
\* an iterator is returned.
GenerateContent(i) ==
    /\ pc[i] = "idle"
    /\ \E contents \in Requests, streaming \in BOOLEAN :
          /\ pc' = [pc EXCEPT ![i] =
                       IF convertRequestFails(maybeAppendUserContent(contents)) THEN "convfail"
                       ELSE IF streaming THEN "stream" ELSE "sync"]
          /\ stream' = [stream EXCEPT ![i] = streaming]
    /\ UNCHANGED <<body, textbuffer, toolCalls, usage, input, yielded, dropped, how,
                   sent, answer>>
    /\ UNCHANGED pvars
    /\ UNCHANGED ovars

\* Lines 87-89: the iterator returned when the conversion failed.
YieldConvertError(i) ==
    /\ pc[i] = "convfail"
    /\ \E cont \in BOOLEAN :
          yielded' = [yielded EXCEPT ![i] =
                         Emit(@, ErrorPair("failed to convert request"), cont)]
    /\ pc' = [pc EXCEPT ![i] = "done"]
    /\ UNCHANGED <<body, textbuffer, toolCalls, usage, input, dropped, stream, how,
                   sent, answer>>
    /\ UNCHANGED pvars
    /\ UNCHANGED ovars

\* generate (lines 473-489) with doRequest (lines 630-646).
generate(i) ==
    /\ pc[i] = "sync"
    /\ \E t \in Transports, r \in SyncBodies, fab \in FabricatedIds, cont \in BOOLEAN :
          LET res == sendRequest(t)
              conv == convertResponse(r, fab)
          IN  /\ sent' = [sent EXCEPT ![i] = Append(@, t)]
              /\ answer' = [answer EXCEPT ![i] = IF res.err # "" THEN @ ELSE Append(@, r)]
              /\ IF res.err # ""
                 THEN /\ yielded' = [yielded EXCEPT ![i] = Emit(@, ErrorPair(res.err), cont)]
                      /\ body' = [body EXCEPT ![i] = res.body]
                      /\ pc' = [pc EXCEPT ![i] = "done"]
                 ELSE IF ~r.decodes
                 THEN /\ yielded' = [yielded EXCEPT ![i] =
                                        Emit(@, ErrorPair("failed to decode response"), cont)]
                      /\ body' = [body EXCEPT ![i] = "closed"]
                      /\ pc' = [pc EXCEPT ![i] = "done"]
                 ELSE IF conv.hangs
                 THEN /\ yielded' = yielded
                      /\ body' = [body EXCEPT ![i] = "closed"]
                      /\ pc' = [pc EXCEPT ![i] = "hung"]
                 ELSE /\ yielded' = [yielded EXCEPT ![i] = Emit(@, conv.pair, cont)]
                      /\ body' = [body EXCEPT ![i] = "closed"]
                      /\ pc' = [pc EXCEPT ![i] = "done"]
    /\ UNCHANGED <<textbuffer, toolCalls, usage, input, dropped, stream, how>>
    /\ UNCHANGED pvars
    /\ UNCHANGED ovars

\* generateStream, lines 495-506: the request is sent on the first pull.
StreamOpen(i) ==
    /\ pc[i] = "stream"
    /\ \E t \in Transports, cont \in BOOLEAN :
          LET res == sendRequest(t)
          IN  /\ sent' = [sent EXCEPT ![i] = Append(@, t)]
              /\ IF res.err # ""
                 THEN /\ yielded' = [yielded EXCEPT ![i] = Emit(@, ErrorPair(res.err), cont)]
                      /\ body' = [body EXCEPT ![i] = res.body]
                      /\ pc' = [pc EXCEPT ![i] = "done"]
                      /\ how' = [how EXCEPT ![i] = "error"]
                      /\ UNCHANGED <<textbuffer, toolCalls, usage>>
                 ELSE /\ cont
                      /\ yielded' = yielded
                      /\ body' = [body EXCEPT ![i] = res.body]
                      /\ pc' = [pc EXCEPT ![i] = "scan"]
                      /\ how' = how
                      /\ textbuffer' = [textbuffer EXCEPT ![Frame(i)] = <<>>]
                      /\ toolCalls' = [toolCalls EXCEPT ![Frame(i)] = <<>>]
                      /\ usage' = [usage EXCEPT ![Frame(i)] = NilUsage]
    /\ UNCHANGED <<input, dropped, stream, answer>>
    /\ UNCHANGED pvars
    /\ UNCHANGED ovars

\* The locals of one generateStream frame (lines 504-506).
Locals(txt, tcs, u) == [textbuffer |-> txt, toolCalls |-> tcs, usage |-> u]

\* What one stretch of the producer does: the locals it leaves, the pairs it
\* yields with the consumer's answers, how it returns ("" while it stays in
\* the loop; "stop", "final", "error", "end") and the errors it swallows.
Outcome(loc, out, path, drops) ==
    [textbuffer |-> loc.textbuffer, toolCalls |-> loc.toolCalls, usage |-> loc.usage,
     out |-> out, how |-> path, dropped |-> drops]

\* Mutant: the flush looks at the text buffer only.
FlushNeededTextOnly(txt, tcs) == Len(txt) > 0

\* Whether the flush of line 590 runs.
FlushNeeded(txt, tcs) == Len(txt) > 0 \/ Len(tcs) > 0

\* Lines 585-593: the loop is left (break, or Scan() = false) and the
\* producer returns.
AfterLoop(loc, scanErr, cont) ==
    IF scanErr
    THEN Outcome(loc, <<[pair |-> ErrorPair("stream error"), cont |-> cont]>>, "error", {})
    ELSE IF FlushNeeded(loc.textbuffer, loc.toolCalls)
    THEN Outcome(loc,
                 <<[pair |-> buildFinalResponse(loc.textbuffer, loc.toolCalls, loc.usage, "stop"),
                    cont |-> cont]>>,
                 "end", DroppedBy(loc.toolCalls))
    ELSE Outcome(loc, <<>>, "end", {})

\* One pass through the loop of lines 508-583 for the line scanner.Scan()
\* gave; cont and contFinal are the consumer's answers to the two yields.
OnLine(loc, line, cont, contFinal) ==
    LET hasText == line.content # <<>>
        buf1 == IF hasText THEN loc.textbuffer \o line.content ELSE loc.textbuffer
        tcs1 == MergeDeltas(loc.toolCalls, line.toolCalls, 0)
        u1 == IF ~line.usage.nil THEN line.usage ELSE loc.usage
        partial == [pair |-> PartialResponse(line.content, buf1), cont |-> cont]
        final == [pair |-> buildFinalResponse(buf1, tcs1, u1, line.finish),
                  cont |-> contFinal]
        ys == IF hasText THEN <<partial>> ELSE <<>>
    IN  IF line.kind = "done" THEN AfterLoop(loc, FALSE, contFinal)
        ELSE IF line.kind # "chunk" THEN Outcome(loc, <<>>, "", {})
        ELSE IF hasText /\ ~cont
        THEN Outcome(Locals(buf1, loc.toolCalls, loc.usage), ys, "stop", {})
        ELSE IF line.finish # ""
        THEN Outcome(Locals(buf1, tcs1, u1), Append(ys, final), "final", DroppedBy(tcs1))
        ELSE Outcome(Locals(buf1, tcs1, u1), ys, "", {})

\* Store the outcome r of invocation i.
Store(i, r) ==
    /\ textbuffer' = [textbuffer EXCEPT ![Frame(i)] = r.textbuffer]
    /\ toolCalls' = [toolCalls EXCEPT ![Frame(i)] = r.toolCalls]
    /\ usage' = [usage EXCEPT ![Frame(i)] = r.usage]
    /\ yielded' = [yielded EXCEPT ![i] = @ \o r.out]
    /\ dropped' = [dropped EXCEPT ![i] = @ \cup r.dropped]
    /\ how' = [how EXCEPT ![i] = r.how]
    /\ pc' = [pc EXCEPT ![i] = IF r.how = "" THEN "scan" ELSE "done"]
    /\ body' = [body EXCEPT ![i] = IF r.how = "" THEN @ ELSE BodyAfterReturn(r.how)]

FrameOf(i) == Locals(textbuffer[Frame(i)], toolCalls[Frame(i)], usage[Frame(i)])

\* scanner.Scan() gives one of the lines ls.
ReadLine(i, ls, maxLines) ==
    /\ pc[i] = "scan"
    /\ Len(input[i]) < maxLines
    /\ \E line \in ls :
          \E cont \in (IF line.content # <<>> THEN BOOLEAN ELSE {TRUE}),
             contFinal \in (IF line.finish # "" \/ line.kind = "done"
                            THEN BOOLEAN ELSE {TRUE}) :
             /\ input' = [input EXCEPT ![i] = Append(@, line)]
             /\ Store(i, OnLine(FrameOf(i), line, cont, contFinal))
    /\ UNCHANGED <<stream, sent, answer>>
    /\ UNCHANGED pvars
    /\ UNCHANGED ovars

StreamLine(i) == ReadLine(i, Lines, MaxLines)

\* scanner.Scan() returns false: end of the body, or a read error.
StreamEnd(i) ==
    /\ pc[i] = "scan"
    /\ \E scanErr \in BOOLEAN, cont \in BOOLEAN : Store(i, AfterLoop(FrameOf(i), scanErr, cont))
    /\ UNCHANGED <<input, stream, sent, answer>>
    /\ UNCHANGED pvars
    /\ UNCHANGED ovars

Init ==
    /\ ExtractIdle
    /\ StreamIdle
    /\ pc = [i \in Calls |-> IF i = 1 THEN "idle" ELSE "off"]
    /\ stream = [i \in Calls |-> FALSE]
    /\ OtherIdle

Next ==
    \E i \in Calls :
        \/ GenerateContent(i)
        \/ YieldConvertError(i)
        \/ generate(i)
        \/ StreamOpen(i)
        \/ StreamLine(i)
        \/ StreamEnd(i)

Spec == Init /\ [][Next]_vars

\* ------------------------------------------------- convertContent on a Turn
ContentInit ==
    /\ content \in Turns
    /\ converted = <<>>
    /\ req = Request(<<>>, <<>>)
    /\ handed = <<>>
    /\ wire = <<>>
    /\ AuthIdle
    /\ MiddlewareIdle
    /\ CalendarIdle
    /\ ExtractIdle
    /\ StreamIdle
    /\ pc = [i \in Calls |-> "off"]
    /\ stream = [i \in Calls |-> FALSE]

\* One call m.convertContent(content); the results of the last two calls
\* are kept.
ConvertContent ==
    /\ \E fabs \in FabChoices(content) :
          converted' = IF Len(converted) < 2
                       THEN Append(converted, convertContent(content, fabs))
                       ELSE <<converted[2], convertContent(content, fabs)>>
    /\ UNCHANGED <<content, req, handed, wire>>
    /\ UNCHANGED <<pvars, svars, avars, mvars, kvars>>

ContentNext == ConvertContent

SpecContent == ContentInit /\ [][ContentNext]_vars

\* --------------------------------- GenerateContent on one request object
RequestInit ==
    /\ req \in TranslatedRequests
    /\ handed = <<>>
    /\ wire = <<>>
    /\ content = Turn("user", <<>>)
    /\ converted = <<>>
    /\ AuthIdle
    /\ MiddlewareIdle
    /\ CalendarIdle
    /\ ExtractIdle
    /\ StreamIdle
    /\ pc = [i \in Calls |-> "off"]
    /\ stream = [i \in Calls |-> FALSE]

\* Lines 83-85 of GenerateContent: the request the caller holds is
\* completed in place and converted.
TranslateRequest ==
    /\ Len(wire) < MaxRepeat
    /\ LET contents == maybeAppendUserContent(req.Contents)
       IN  /\ handed' = Append(handed, req.Contents)
           /\ req' = [req EXCEPT !.Contents = contents]
           /\ \E fabss \in FabsFor(contents) :
                 wire' = Append(wire, convertRequest(Request(req.sys, contents), fabss))
    /\ UNCHANGED <<content, converted>>
    /\ UNCHANGED <<pvars, svars, avars, mvars, kvars>>

RequestNext == TranslateRequest

SpecRequest == RequestInit /\ [][RequestNext]_vars

\* ------------------------------------------------------------ package auth
Users == {1, 2}
\* What GenerateRefreshToken may return, and a token it never returned.
TokenPool == {"r1", "r2"}
UnknownToken == "r0"

RefreshToken(token, userID, expiresAt, isRevoked) ==
    [Token |-> token, UserID |-> userID, ExpiresAt |-> expiresAt, IsRevoked |-> isRevoked]

\* Mutant: the query does not look at is_revoked.
GetByTokenAny(rows, token) == {r \in rows : r.Token = token}

\* refreshTokenRepository.GetByToken: the rows the query matches (the unique
\* index leaves at most one); none is gorm.ErrRecordNotFound.
GetByToken(rows, token) == {r \in rows : r.Token = token /\ r.IsRevoked = FALSE}

\* refreshTokenRepository.RevokeByToken / RevokeByUserID
RevokeByToken(rows, token) ==
    {IF r.Token = token THEN [r EXCEPT !.IsRevoked = TRUE] ELSE r : r \in rows}
RevokeByUserID(rows, userID) ==
    {IF r.UserID = userID THEN [r EXCEPT !.IsRevoked = TRUE] ELSE r : r \in rows}

\* Mutant: a token counts as expired only a reading later.
AfterLate(t, expiresAt) == t > expiresAt + 1

\* time.Now().After(refreshTokenModel.ExpiresAt)
After(t, expiresAt) == t > expiresAt

\* The claims of the access token GenerateAccessToken signs.
AccessToken(userID) == <<[UserID |-> userID]>>

StatusUnauthorized == 401
StatusBadRequest == 400
StatusInternalServerError == 500

AuthInit ==
    /\ AuthIdle
    /\ MiddlewareIdle
    /\ CalendarIdle
    /\ ConvertIdle
    /\ ExtractIdle
    /\ StreamIdle
    /\ pc = [i \in Calls |-> "off"]
    /\ stream = [i \in Calls |-> FALSE]

Answer(op, status, token, access) == resp' = AuthResponse(op, status, token, access, now)

\* Handler.Login: binds says whether ShouldBindJSON succeeds, outcome is what
\* userService.Login returns for user u, token what GenerateRefreshToken
\* returns, dbOK whether the database carries out the INSERT.
Login ==
    /\ \E binds \in BOOLEAN, outcome \in {"user", "ErrUserNotFound", "ErrInvalidPassword", "error"},
          u \in Users, token \in TokenPool, dbOK \in BOOLEAN :
          LET row == RefreshToken(token, u, now + RefreshExpiration, FALSE)
              inserted == dbOK /\ \A r \in refreshTokens : r.Token # token
          IN  IF ~binds
              THEN Answer("Login", StatusBadRequest, "", <<>>)
                   /\ UNCHANGED <<refreshTokens, created>>
              ELSE IF outcome \in {"ErrUserNotFound", "ErrInvalidPassword"}
              THEN Answer("Login", StatusUnauthorized, "", <<>>)
                   /\ UNCHANGED <<refreshTokens, created>>
              ELSE IF outcome = "error" \/ ~inserted
              THEN Answer("Login", StatusInternalServerError, "", <<>>)
                   /\ UNCHANGED <<refreshTokens, created>>
              ELSE /\ Answer("Login", StatusOK, token, AccessToken(u))
                   /\ refreshTokens' = refreshTokens \cup {row}
                   /\ created' = created \cup {row}
    /\ UNCHANGED <<now, revoked>>
    /\ UNCHANGED <<pvars, svars, cvars, mvars, kvars>>

\* Handler.Refresh: token is the refresh_token of the request ("" when it
\* does not bind), userFound whether userService.GetUserByID finds the user.
Refresh ==
    /\ \E token \in TokenPool \cup {UnknownToken, ""}, userFound \in BOOLEAN, dbOK \in BOOLEAN :
          LET rows == IF dbOK THEN GetByToken(refreshTokens, token) ELSE {}
              refreshTokenModel == CHOOSE r \in rows : TRUE
          IN  IF token = "" THEN Answer("Refresh", StatusBadRequest, token, <<>>)
              ELSE IF rows = {} THEN Answer("Refresh", StatusUnauthorized, token, <<>>)
              ELSE IF After(now, refreshTokenModel.ExpiresAt)
              THEN Answer("Refresh", StatusUnauthorized, token, <<>>)
              ELSE IF ~userFound THEN Answer("Refresh", StatusUnauthorized, token, <<>>)
              ELSE Answer("Refresh", StatusOK, token, AccessToken(refreshTokenModel.UserID))
    /\ UNCHANGED <<refreshTokens, now, created, revoked>>
    /\ UNCHANGED <<pvars, svars, cvars, mvars, kvars>>

\* Handler.Logout
Logout ==
    /\ \E token \in TokenPool \cup {UnknownToken, ""}, dbOK \in BOOLEAN :
          IF token = ""
          THEN Answer("Logout", StatusBadRequest, token, <<>>)
               /\ UNCHANGED <<refreshTokens, revoked>>
          ELSE IF ~dbOK
          THEN Answer("Logout", StatusInternalServerError, token, <<>>)
               /\ UNCHANGED <<refreshTokens, revoked>>
          ELSE /\ Answer("Logout", StatusOK, token, <<>>)
               /\ refreshTokens' = RevokeByToken(refreshTokens, token)
               /\ revoked' = revoked \cup {c.Token : c \in {r \in created : r.Token = token}}
    /\ UNCHANGED <<now, created>>
    /\ UNCHANGED <<pvars, svars, cvars, mvars, kvars>>

\* The values c.Get("user_id") may give: absent, a uint, or another type.
ContextUserIDs ==
    {[exists |-> FALSE, type |-> "", v |-> 0], [exists |-> TRUE, type |-> "string", v |-> 0]}
    \cup {[exists |-> TRUE, type |-> "uint", v |-> u] : u \in Users}

\* Handler.LogoutAll
LogoutAll ==
    /\ \E userID \in ContextUserIDs, dbOK \in BOOLEAN :
          IF ~userID.exists
          THEN Answer("LogoutAll", StatusUnauthorized, "", <<>>)
               /\ UNCHANGED <<refreshTokens, revoked>>
          ELSE IF userID.type # "uint"
          THEN Answer("LogoutAll", StatusBadRequest, "", <<>>)
               /\ UNCHANGED <<refreshTokens, revoked>>
          ELSE IF ~dbOK
          THEN Answer("LogoutAll", StatusInternalServerError, "", <<>>)
               /\ UNCHANGED <<refreshTokens, revoked>>
          ELSE /\ Answer("LogoutAll", StatusOK, "", <<>>)
               /\ refreshTokens' = RevokeByUserID(refreshTokens, userID.v)
               /\ revoked' = revoked \cup {r.Token : r \in {c \in created : c.UserID = userID.v}}
    /\ UNCHANGED <<now, created>>
    /\ UNCHANGED <<pvars, svars, cvars, mvars, kvars>>

\* The clock advances.
Tick ==
    /\ now < MaxTime
    /\ now' = now + 1
    /\ UNCHANGED <<refreshTokens, resp, created, revoked>>
    /\ UNCHANGED <<pvars, svars, cvars, mvars, kvars>>

AuthNext == Login \/ Refresh \/ Logout \/ LogoutAll \/ Tick

SpecAuth == AuthInit /\ [][AuthNext]_vars

\* ------------------------------------------------ middleware.AuthRequired
\* jwtConfig.Secret, and a key the server does not hold.
Secret == "secret"
ForgedSecret == "forged"

Username(userID) == IF userID = 1 THEN "alice" ELSE "bob"

\* auth.Claims: UserID, Username, IsAdmin and the registered claims.
Claims(userID, username, isAdmin, expiresAt, issuedAt, notBefore) ==
    [UserID |-> userID, Username |-> username, IsAdmin |-> isAdmin,
     ExpiresAt |-> expiresAt, IssuedAt |-> issuedAt, NotBefore |-> notBefore]

\* A token string: whether it parses as three segments of a JWT, the alg
\* of its header, the key its signature was made with, and its claims.
JWT(wellformed, alg, key, claims) ==
    [wellformed |-> wellformed, alg |-> alg, key |-> key, claims |-> claims]

\* GenerateAccessToken called at clock reading t.
GenerateAccessToken(userID, username, isAdmin, secret, expiration, t) ==
    JWT(TRUE, "HS256", secret, Claims(userID, username, isAdmin, t + expiration, t, t))

\* A string that is no JWT, and a token whose header names no HMAC method.
NotAJWT == JWT(FALSE, "", "", Claims(0, "", FALSE, 0, 0, 0))
UnsignedJWT(t) == JWT(TRUE, "none", "", Claims(1, Username(1), TRUE, t + AccessExpiration, t, t))

\* The pieces of an Authorization header: a word, a space, a token string.
Word(w) == [s |-> w, t |-> <<>>]
Space == Word(" ")
Tok(j) == [s |-> "jwt", t |-> <<j>>]

RECURSIVE IndexSpace(_, _)
IndexSpace(h, k) ==
    IF k > Len(h) THEN 0
    ELSE IF h[k] = Space THEN k
    ELSE IndexSpace(h, k + 1)

\* strings.SplitN(authHeader, " ", 2)
SplitN(h) ==
    LET k == IndexSpace(h, 1)
    IN  IF k = 0 THEN <<h>> ELSE <<SubSeq(h, 1, k - 1), SubSeq(h, k + 1, Len(h))>>

\* The message of the error the validator of the jwt library returns for the
\* registered claims at clock reading t: none when they hold.
ClaimErrors(claims, t) ==
    (IF t < claims.ExpiresAt THEN <<>> ELSE <<"token is expired">>)
    \o (IF t < claims.NotBefore THEN <<"token is not valid yet">> ELSE <<>>)

\* Mutant: the signature is not checked against the secret.
ValidateTokenAnyKey(tokenString, secret, t) ==
    IF Len(tokenString) # 1 \/ tokenString[1].t = <<>>
    THEN [err |-> "ErrInvalidToken", claims |-> <<>>]
    ELSE LET j == tokenString[1].t[1]
             ce == ClaimErrors(j.claims, t)
         IN  IF ~j.wellformed \/ j.alg # "HS256"
             THEN [err |-> "ErrInvalidToken", claims |-> <<>>]
             ELSE IF ce # <<>>
             THEN [err |-> IF ce = <<"token is expired">>
                           THEN "ErrExpiredToken" ELSE "ErrInvalidToken",
                   claims |-> <<>>]
             ELSE [err |-> "", claims |-> <<j.claims>>]

\* auth.ValidateToken at clock reading t: the parse, the check of the signing
\* method, the signature under secret, the registered claims; the error is
\* ErrExpiredToken when the library's message is the one of an expired token.
ValidateToken(tokenString, secret, t) ==
    IF Len(tokenString) # 1 \/ tokenString[1].t = <<>>
    THEN [err |-> "ErrInvalidToken", claims |-> <<>>]
    ELSE LET j == tokenString[1].t[1]
             ce == ClaimErrors(j.claims, t)
         IN  IF ~j.wellformed \/ j.alg # "HS256" \/ j.key # secret
             THEN [err |-> "ErrInvalidToken", claims |-> <<>>]
             ELSE IF ce # <<>>
             THEN [err |-> IF ce = <<"token is expired">>
                           THEN "ErrExpiredToken" ELSE "ErrInvalidToken",
                   claims |-> <<>>]
             ELSE [err |-> "", claims |-> <<j.claims>>]

\* The tokens the server has signed by clock reading t, and tokens it has not.
IssuedTokens(t) ==
    {GenerateAccessToken(u, Username(u), a, Secret, AccessExpiration, i) :
        u \in Users, a \in BOOLEAN, i \in 0..t}
ForeignTokens ==
    {GenerateAccessToken(1, Username(1), TRUE, ForgedSecret, AccessExpiration, i) :
        i \in 0..MaxTime}
    \cup {UnsignedJWT(i) : i \in 0..MaxTime} \cup {NotAJWT}

\* The Authorization headers a request may carry at clock reading t.
Headers(t) ==
    {<<>>, <<Word("Bearer")>>, <<Word("Bearer"), Space>>}
    \cup {<<Word("Bearer"), Space, Tok(j)>> : j \in IssuedTokens(t) \cup ForeignTokens}
    \cup UNION {{<<Tok(j)>>, <<Word("Basic"), Space, Tok(j)>>,
                 <<Word("bearer"), Space, Tok(j)>>,
                 <<Word("Bearer"), Space, Space, Tok(j)>>} :
                j \in {GenerateAccessToken(1, Username(1), FALSE, Secret, AccessExpiration, t)}}

\* What gin answers with: http.StatusUnauthorized and the error of the body.
Unauthorized(authHeader, t, error) ==
    Context(authHeader, t, StatusUnauthorized, error, TRUE, FALSE, <<>>)

\* The handler AuthRequired(jwtConfig) returns, run on one request.
AuthRequired ==
    \E authHeader \in Headers(now) :
        LET parts == SplitN(authHeader)
        IN  /\ ctx' =
                 IF authHeader = <<>>
                 THEN Unauthorized(authHeader, now, "no token")
                 ELSE IF Len(parts) # 2 \/ parts[1] # <<Word("Bearer")>>
                 THEN Unauthorized(authHeader, now, "bad format")
                 ELSE LET v == ValidateToken(parts[2], Secret, now)
                      IN  IF v.err = "ErrExpiredToken"
                          THEN Unauthorized(authHeader, now, "token expired")
                          ELSE IF v.err # ""
                          THEN Unauthorized(authHeader, now, "invalid token")
                          ELSE Context(authHeader, now, 0, "", FALSE, TRUE,
                                       <<[user_id |-> v.claims[1].UserID,
                                          username |-> v.claims[1].Username,
                                          is_admin |-> v.claims[1].IsAdmin]>>)
            /\ UNCHANGED <<pvars, svars, cvars, avars, kvars>>

MiddlewareInit == AuthInit

MiddlewareNext == AuthRequired \/ Tick

SpecMiddleware == MiddlewareInit /\ [][MiddlewareNext]_vars

\* -------------------------------------------------------- package calendar
\* A pointer field is <<>> when nil and <<v>> when it points to v; a string
\* is the sequence of its characters; a time is a clock reading, 0 the zero
\* time.Time.
CalendarItemTypeEvent == "VEVENT"
CalendarItemTypeTodo == "VTODO"
CalendarItemTypeJournal == "VJOURNAL"
CalendarItemTypeFreeBusy == "VFREEBUSY"

\* A row of calendar_items: the columns the requests of the model set.
CalendarItem(id, uid, type, summary, dtStart, dtEnd, due, duration, sequence, userID, deleted) ==
    [ID |-> id, UID |-> uid, Type |-> type, Summary |-> summary, DtStart |-> dtStart,
     DtEnd |-> dtEnd, Due |-> due, Duration |-> duration, Sequence |-> sequence,
     UserID |-> userID, DeletedAt |-> deleted]

CreateCalendarItemRequest(type, summary, dtStart, dtEnd, due, duration) ==
    [Type |-> type, Summary |-> summary, DtStart |-> dtStart, DtEnd |-> dtEnd,
     Due |-> due, Duration |-> duration]

UpdateCalendarItemRequest(summary, dtStart, sequence) ==
    [Summary |-> summary, DtStart |-> dtStart, Sequence |-> sequence]

ListCalendarItemsRequest(page, pageSize, startTime, endTime, type) ==
    [Page |-> page, PageSize |-> pageSize, StartTime |-> startTime, EndTime |-> endTime,
     Type |-> type]

TimeRange(start, end) == [Start |-> start, End |-> end]

SearchCalendarItemsRequest(q, dtStart, limit) ==
    [Q |-> q, DtStart |-> dtStart, Limit |-> limit]

isValidCalendarItemType(t) ==
    \/ t = CalendarItemTypeEvent
    \/ t = CalendarItemTypeTodo
    \/ t = CalendarItemTypeJournal
    \/ t = CalendarItemTypeFreeBusy

\* Mutant: a VEVENT may carry both dtend and duration.
validateCalendarItemRequestBoth(request) ==
    LET hasDtEnd == request.DtEnd # <<>>
        hasDuration == request.Duration # <<>> /\ request.Duration[1] # <<>>
    IN  IF request.Type = CalendarItemTypeEvent
        THEN IF request.DtStart = <<>> THEN "ErrInvalidInput"
             ELSE IF ~hasDtEnd /\ ~hasDuration THEN "ErrInvalidInput"
             ELSE ""
        ELSE IF request.Type = CalendarItemTypeTodo
        THEN IF request.DtStart = <<>> /\ request.Due = <<>> THEN "ErrInvalidInput" ELSE ""
        ELSE IF request.Type = CalendarItemTypeJournal
        THEN IF request.DtStart = <<>> THEN "ErrInvalidInput" ELSE ""
        ELSE IF request.Type = CalendarItemTypeFreeBusy
        THEN IF request.DtStart = <<>> THEN "ErrInvalidInput"
             ELSE IF request.DtEnd = <<>> THEN "ErrInvalidInput"
             ELSE ""
        ELSE ""

\* validateCalendarItemRequest: "" for nil, or the error the message wraps.
validateCalendarItemRequest(request) ==
    LET hasDtEnd == request.DtEnd # <<>>
        hasDuration == request.Duration # <<>> /\ request.Duration[1] # <<>>
    IN  IF request.Type = CalendarItemTypeEvent
        THEN IF request.DtStart = <<>> THEN "ErrInvalidInput"
             ELSE IF ~hasDtEnd /\ ~hasDuration THEN "ErrInvalidInput"
             ELSE IF hasDtEnd /\ hasDuration THEN "ErrInvalidInput"
             ELSE ""
        ELSE IF request.Type = CalendarItemTypeTodo
        THEN IF request.DtStart = <<>> /\ request.Due = <<>> THEN "ErrInvalidInput" ELSE ""
        ELSE IF request.Type = CalendarItemTypeJournal
        THEN IF request.DtStart = <<>> THEN "ErrInvalidInput" ELSE ""
        ELSE IF request.Type = CalendarItemTypeFreeBusy
        THEN IF request.DtStart = <<>> THEN "ErrInvalidInput"
             ELSE IF request.DtEnd = <<>> THEN "ErrInvalidInput"
             ELSE ""
        ELSE ""

\* The rows a query of the repository sees: gorm leaves soft-deleted rows
\* out, and Where("user_id = ?", *userID) is added when userID is not nil.
Scoped(rows, userID) ==
    SelectSeq(rows, LAMBDA r : ~r.DeletedAt /\ (userID = <<>> \/ r.UserID = userID))

\* Mutant: the query does not filter on user_id.
repoGetCalendarItemByIDAnyUser(rows, userID, id) ==
    SelectSeq(Scoped(rows, <<>>), LAMBDA r : r.ID = id)

\* repository.GetCalendarItemByID: the rows First chooses from (none is
\* gorm.ErrRecordNotFound).
repoGetCalendarItemByID(rows, userID, id) ==
    SelectSeq(Scoped(rows, userID), LAMBDA r : r.ID = id)

\* repository.GetCalendarItemByUID
repoGetCalendarItemByUID(rows, userID, uid) ==
    SelectSeq(Scoped(rows, userID), LAMBDA r : r.UID = uid)

\* The rows the statement of UpdateCalendarItem and DeleteCalendarItem touches.
Affected(rows, userID, id) ==
    {k \in 1..Len(rows) :
        ~rows[k].DeletedAt /\ rows[k].ID = id /\ (userID = <<>> \/ rows[k].UserID = userID)}

\* repository.UpdateCalendarItem: the table after Updates, and RowsAffected.
repoUpdateCalendarItem(rows, userID, item) ==
    [rows |-> [k \in 1..Len(rows) |->
                 IF k \in Affected(rows, userID, item.ID)
                 THEN [rows[k] EXCEPT !.Summary = item.Summary, !.DtStart = item.DtStart,
                                      !.DtEnd = item.DtEnd, !.Due = item.Due,
                                      !.Duration = item.Duration,
                                      !.Sequence = item.Sequence]
                 ELSE rows[k]],
     RowsAffected |-> Cardinality(Affected(rows, userID, item.ID))]

\* repository.DeleteCalendarItem: the table after the soft delete, and RowsAffected.
repoDeleteCalendarItem(rows, userID, id) ==
    [rows |-> [k \in 1..Len(rows) |->
                 IF k \in Affected(rows, userID, id)
                 THEN [rows[k] EXCEPT !.DeletedAt = TRUE]
                 ELSE rows[k]],
     RowsAffected |-> Cardinality(Affected(rows, userID, id))]

\* Order("dt_start ASC"): rows of equal dt_start are left in the order of
\* their ids.
RECURSIVE Insert(_, _)
Insert(sorted, r) ==
    IF sorted = <<>> THEN <<r>>
    ELSE IF r.DtStart < Head(sorted).DtStart THEN <<r>> \o sorted
    ELSE <<Head(sorted)>> \o Insert(Tail(sorted), r)

RECURSIVE OrderByDtStart(_)
OrderByDtStart(rows) ==
    IF rows = <<>> THEN <<>>
    ELSE Insert(OrderByDtStart(SubSeq(rows, 1, Len(rows) - 1)), rows[Len(rows)])

\* Offset(offset).Limit(limit)
OffsetLimit(rows, offset, limit) ==
    SubSeq(rows, offset + 1, IF Len(rows) < offset + limit THEN Len(rows) ELSE offset + limit)

\* repository.ListCalendarItems: the page and the total.
repoListCalendarItems(rows, userID, startTime, endTime, itemType, offset, limit) ==
    LET matches == SelectSeq(Scoped(rows, userID), LAMBDA r :
                     /\ itemType = <<>> \/ r.Type = itemType[1]
                     /\ IF startTime # <<>> /\ endTime # <<>>
                        THEN r.DtStart <= endTime[1]
                             /\ (r.DtEnd = <<>> \/ r.DtEnd[1] >= startTime[1])
                        ELSE IF startTime # <<>> THEN r.DtStart >= startTime[1]
                        ELSE IF endTime # <<>> THEN r.DtStart <= endTime[1]
                        ELSE TRUE)
    IN  [items |-> OffsetLimit(OrderByDtStart(matches), offset, limit),
         total |-> Len(matches)]

\* column ILIKE '%q%': q occurs in the string (NULL matches nothing).
Contains(str, q) ==
    \E k \in 1..(Len(str) + 1 - Len(q)) : SubSeq(str, k, k + Len(q) - 1) = q

\* repository.SearchCalendarItems: timeRanges holds dtstart or nothing;
\* of the searchable columns the rows of the model fill summary
\* only, the others are NULL.
repoSearchCalendarItems(rows, userID, q, timeRanges, limit) ==
    LET matches == SelectSeq(Scoped(rows, userID), LAMBDA r :
                     /\ \A tr \in {timeRanges[k] : k \in 1..Len(timeRanges)} :
                           /\ tr.Start = <<>> \/ r.DtStart >= tr.Start[1]
                           /\ tr.End = <<>> \/ r.DtStart <= tr.End[1]
                     /\ q = <<>> \/ (r.Summary # <<>> /\ Contains(r.Summary[1], q)))
    IN  OffsetLimit(OrderByDtStart(matches), 0, limit)

\* The ids a request may name: those given out so far and the next one.
ItemIDs == 1..MaxItems

\* The requests of CreateCalendarItem: every type, one that is none of the
\* four, and every combination of dtstart, dtend, due and duration (nil, the
\* empty string, a value).
CreateRequests ==
    {CreateCalendarItemRequest(t, <<<<"a", "b">>>>, s, e, d, u) :
        t \in {CalendarItemTypeEvent, CalendarItemTypeTodo, CalendarItemTypeJournal,
               CalendarItemTypeFreeBusy, "VALARM"},
        s \in {<<>>, <<1>>}, e \in {<<>>, <<2>>}, d \in {<<>>, <<2>>},
        u \in {<<>>, <<<<>>>>, <<<<"P", "T", "1", "H">>>>}}

\* A few of them, for the runs that go on with the items created.
FewCreateRequests ==
    {CreateCalendarItemRequest(CalendarItemTypeEvent, <<<<"a", "b">>>>, <<1>>, <<2>>, <<>>, <<>>),
     CreateCalendarItemRequest(CalendarItemTypeEvent, <<<<"a", "b">>>>, <<>>, <<2>>, <<>>, <<>>)}

UpdateRequests == {UpdateCalendarItemRequest(<<<<"c">>>>, <<2>>, <<>>)}

ListRequests ==
    {ListCalendarItemsRequest(0, 0, <<>>, <<>>, <<>>),
     ListCalendarItemsRequest(1, 1, <<2>>, <<>>, <<CalendarItemTypeEvent>>)}

SearchRequests ==
    {SearchCalendarItemsRequest(<<>>, <<>>, <<>>),
     SearchCalendarItemsRequest(<<<<" ", "b">>>>, <<TimeRange(<<1>>, <<>>)>>, <<1>>)}

\* service.CreateCalendarItem on a table of fewer than cap rows.
CreateCalendarItem(userID, request, cap) ==
    /\ Len(items) < cap
    /\ IF ~isValidCalendarItemType(request.Type)
       THEN /\ cal' = Call("Create", userID, 0, <<request>>, "ErrInvalidType", <<>>, FALSE, items)
            /\ items' = items
       ELSE IF validateCalendarItemRequest(request) # ""
       THEN /\ cal' = Call("Create", userID, 0, <<request>>,
                           validateCalendarItemRequest(request), <<>>, FALSE, items)
            /\ items' = items
       ELSE LET id == Len(items) + 1
                item == CalendarItem(id, id, request.Type, request.Summary,
                                     IF request.DtStart # <<>> THEN request.DtStart[1] ELSE 0,
                                     request.DtEnd, request.Due, request.Duration, <<>>,
                                     userID, FALSE)
            IN  /\ items' = Append(items, item)
                /\ cal' = Call("Create", userID, 0, <<request>>, "",
                               <<[ID |-> id, UID |-> id, Type |-> request.Type]>>, TRUE, items)
    /\ UNCHANGED <<pvars, svars, cvars, avars, mvars>>

\* service.GetCalendarItemByID
GetCalendarItemByID(userID, id) ==
    LET found == repoGetCalendarItemByID(items, userID, id)
    IN  /\ cal' = IF found = <<>>
                  THEN Call("GetByID", userID, id, <<>>, "ErrCalendarItemNotFound", <<>>, TRUE, items)
                  ELSE Call("GetByID", userID, id, <<>>, "", <<found[1]>>, TRUE, items)
        /\ UNCHANGED <<items, pvars, svars, cvars, avars, mvars>>

\* service.GetCalendarItemByUID
GetCalendarItemByUID(userID, uid) ==
    LET found == repoGetCalendarItemByUID(items, userID, uid)
    IN  /\ cal' = IF found = <<>>
                  THEN Call("GetByUID", userID, uid, <<>>, "ErrCalendarItemNotFound", <<>>, TRUE, items)
                  ELSE Call("GetByUID", userID, uid, <<>>, "", <<found[1]>>, TRUE, items)
        /\ UNCHANGED <<items, pvars, svars, cvars, avars, mvars>>

\* service.UpdateCalendarItem, while the sequence number of the item is
\* below the bound.
UpdateCalendarItem(userID, id, request) ==
    LET found == repoGetCalendarItemByID(items, userID, id)
        old == found[1]
        item == [old EXCEPT
                   !.Summary = IF request.Summary # <<>> THEN request.Summary ELSE @,
                   !.DtStart = IF request.DtStart # <<>> THEN request.DtStart[1] ELSE @,
                   !.Sequence = IF request.Sequence # <<>> THEN request.Sequence
                                ELSE IF @ = <<>> THEN <<0>>
                                ELSE <<@[1] + 1>>]
        updated == repoUpdateCalendarItem(items, userID, item)
        again == repoGetCalendarItemByID(updated.rows, userID, id)
    IN  /\ \A k \in 1..Len(items) :
              items[k].ID = id /\ items[k].Sequence # <<>> => items[k].Sequence[1] < MaxSequence
        /\ IF found = <<>>
           THEN /\ cal' = Call("Update", userID, id, <<request>>, "ErrCalendarItemNotFound",
                               <<>>, TRUE, items)
                /\ items' = items
           ELSE IF updated.RowsAffected = 0
           THEN /\ cal' = Call("Update", userID, id, <<request>>, "update failed", <<>>,
                               TRUE, items)
                /\ items' = items
           ELSE /\ items' = updated.rows
                /\ cal' = IF again = <<>>
                          THEN Call("Update", userID, id, <<request>>, "reload failed", <<>>,
                                    TRUE, items)
                          ELSE Call("Update", userID, id, <<request>>, "", <<again[1]>>,
                                    TRUE, items)
        /\ UNCHANGED <<pvars, svars, cvars, avars, mvars>>

\* service.DeleteCalendarItem
DeleteCalendarItem(userID, id) ==
    LET deleted == repoDeleteCalendarItem(items, userID, id)
    IN  /\ IF deleted.RowsAffected = 0
           THEN /\ cal' = Call("Delete", userID, id, <<>>, "ErrCalendarItemNotFound", <<>>,
                               TRUE, items)
                /\ items' = items
           ELSE /\ cal' = Call("Delete", userID, id, <<>>, "", <<>>, TRUE, items)
                /\ items' = deleted.rows
        /\ UNCHANGED <<pvars, svars, cvars, avars, mvars>>

\* service.ListCalendarItems
ListCalendarItems(userID, request) ==
    LET page == IF request.Page < 1 THEN 1 ELSE request.Page
        pageSize == IF request.PageSize < 1 \/ request.PageSize > 100
                    THEN 10 ELSE request.PageSize
        listed == repoListCalendarItems(items, userID, request.StartTime, request.EndTime,
                                        request.Type, (page - 1) * pageSize, pageSize)
    IN  /\ cal' = Call("List", userID, 0, <<request>>, "", listed.items, TRUE, items)
        /\ UNCHANGED <<items, pvars, svars, cvars, avars, mvars>>

\* service.SearchCalendarItems
SearchCalendarItems(userID, request) ==
    LET q == IF request.Q # <<>> THEN TrimSpace(request.Q[1]) ELSE <<>>
        timeRanges == request.DtStart
        limit == IF request.Limit = <<>> THEN 20
                 ELSE IF request.Limit[1] > 100 THEN 100
                 ELSE request.Limit[1]
    IN  /\ cal' = IF q = <<>> /\ Len(timeRanges) = 0
                  THEN Call("Search", userID, 0, <<request>>, "ErrInvalidInput", <<>>,
                            FALSE, items)
                  ELSE IF request.Limit # <<>> /\ request.Limit[1] < 1
                  THEN Call("Search", userID, 0, <<request>>, "ErrInvalidInput", <<>>,
                            FALSE, items)
                  ELSE Call("Search", userID, 0, <<request>>, "",
                            repoSearchCalendarItems(items, userID, q, timeRanges, limit),
                            TRUE, items)
        /\ UNCHANGED <<items, pvars, svars, cvars, avars, mvars>>

CalendarInit == AuthInit

\* The service called with every request of CreateCalendarItem.
CreateNext ==
    \E u \in Users : \E request \in CreateRequests :
        CreateCalendarItem(<<u>>, request, MaxCreates)

SpecCreate == CalendarInit /\ [][CreateNext]_vars

\* The service called by two users, in any order.
CalendarNext ==
    \E u \in Users :
        \/ \E request \in FewCreateRequests : CreateCalendarItem(<<u>>, request, MaxItems)
        \/ \E id \in ItemIDs : GetCalendarItemByID(<<u>>, id)
        \/ \E id \in ItemIDs : GetCalendarItemByUID(<<u>>, id)
        \/ \E id \in ItemIDs : \E request \in UpdateRequests :
              UpdateCalendarItem(<<u>>, id, request)
        \/ \E id \in ItemIDs : DeleteCalendarItem(<<u>>, id)
        \/ \E request \in ListRequests : ListCalendarItems(<<u>>, request)
        \/ \E request \in SearchRequests : SearchCalendarItems(<<u>>, request)

SpecCalendar == CalendarInit /\ [][CalendarNext]_vars

\* --------------------------------------------- two concurrent invocations
ConcLine(i) == ReadLine(i, ConcLines, ConcMaxLines)

ConcInit ==
    /\ ExtractIdle
    /\ StreamIdle
    /\ pc = [i \in Calls |-> "stream"]
    /\ stream = [i \in Calls |-> TRUE]
    /\ OtherIdle

ConcNext ==
    \E i \in Calls :
        \/ StreamOpen(i)
        \/ ConcLine(i)
        \/ StreamEnd(i)

SpecConc == ConcInit /\ [][ConcNext]_vars

\* ------------------------------------------------------ reading the history
LastOf(seq) == seq[Len(seq)]
IsFinal(p) == ~p.isErr /\ ~p.Partial
IsPartial(p) == ~p.isErr /\ p.Partial
IsFinalYield(y) == IsFinal(y.pair)
IsPartialYield(y) == IsPartial(y.pair)
HasContent(line) == line.kind = "chunk" /\ line.content # <<>>

RECURSIVE PartsText(_)
PartsText(parts) ==
    IF parts = <<>> THEN <<>>
    ELSE (IF Head(parts).kind = "text" THEN Head(parts).text ELSE <<>>) \o PartsText(Tail(parts))

\* The texts of the partial responses, in yield order, and their concatenation.
RECURSIVE PartialTexts(_)
PartialTexts(ys) ==
    IF ys = <<>> THEN <<>>
    ELSE (IF IsPartial(Head(ys).pair) THEN <<PartsText(Head(ys).pair.parts)>> ELSE <<>>)
         \o PartialTexts(Tail(ys))

\* The content increments of the lines read, in order.
RECURSIVE Increments(_)
Increments(ls) ==
    IF ls = <<>> THEN <<>>
    ELSE (IF HasContent(Head(ls)) THEN <<Head(ls).content>> ELSE <<>>) \o Increments(Tail(ls))

\* The argument fragments delivered under wire index j, joined in arrival order.
RECURSIVE FragmentsAt(_, _)
FragmentsAt(deltas, j) ==
    IF deltas = <<>> THEN <<>>
    ELSE (IF Head(deltas).Index = j THEN Head(deltas).Arguments ELSE <<>>)
         \o FragmentsAt(Tail(deltas), j)
RECURSIVE Delivered(_, _)
Delivered(ls, j) ==
    IF ls = <<>> THEN <<>>
    ELSE FragmentsAt(Head(ls).toolCalls, j) \o Delivered(Tail(ls), j)

Indexes(ls) ==
    UNION {{ls[k].toolCalls[n].Index : n \in 1..Len(ls[k].toolCalls)} : k \in 1..Len(ls)}

\* generateStream has assembled a final response for invocation i.
Assembled(i) ==
    \/ how[i] = "final"
    \/ how[i] = "end" /\ (textbuffer[Frame(i)] # <<>> \/ toolCalls[Frame(i)] # <<>>)

\* ------------------------------------------------------------------ claims

\* C1: when a valid JSON arguments string is delivered as successive
\* single-entry tool-call deltas under one fixed wire index j, then, while the
\* producer is still in its loop (no finish_reason chunk yet), accumulator
\* entry j exists and holds exactly the fragments joined in arrival order.
C1_ArgumentsReconstructed ==
    \A i \in Calls :
        (stream[i] /\ pc[i] = "scan") =>
            \A j \in Indexes(input[i]) :
                ( /\ Indexes(input[i]) = {j}
                  /\ \A k \in 1..Len(input[i]) : Len(input[i][k].toolCalls) <= 1
                  /\ ~Unmarshal(Delivered(input[i], j)).err )
                => /\ Len(toolCalls[Frame(i)]) > j
                   /\ toolCalls[Frame(i)][j + 1].Arguments = Delivered(input[i], j)

\* The functionCall parts the final response is to carry: one per accumulated
\* tool call whose arguments are valid JSON, in accumulator order.
RECURSIVE ValidCallParts(_)
ValidCallParts(tcs) ==
    IF tcs = <<>> THEN <<>>
    ELSE LET u == Unmarshal(Head(tcs).Arguments)
         IN  (IF u.err THEN <<>>
              ELSE <<FunctionCallPart(Head(tcs).ID, Head(tcs).Name, u.args)>>)
             \o ValidCallParts(Tail(tcs))

\* C2: when a chunk with a non-empty finish_reason has been processed, the
\* last pair yielded is the one final response: the accumulated text (if not
\* empty), then one functionCall part per accumulated tool call with valid
\* JSON arguments (name, id, parsed map), the stored usage and the mapped
\* finish reason.
C2_FinalAssembly ==
    \A i \in Calls :
        (stream[i] /\ how[i] = "final") =>
            LastOf(yielded[i]).pair =
                Response(FinalTextParts(textbuffer[Frame(i)])
                         \o ValidCallParts(toolCalls[Frame(i)]),
                         FALSE, mapFinishReason(LastOf(input[i]).finish),
                         buildUsageMetadata(usage[Frame(i)]))

\* C3: the partial responses carry, one for one and in order, the content
\* increments of the chunks read, and in a sequence that ends with a final
\* response their concatenation is the text of that final response.
C3_TextReconstruction ==
    \A i \in Calls :
        stream[i] =>
            /\ PartialTexts(yielded[i]) = Increments(input[i])
            /\ (yielded[i] # <<>> /\ IsFinal(LastOf(yielded[i]).pair)) =>
                   Flatten(PartialTexts(yielded[i])) = PartsText(LastOf(yielded[i]).pair.parts)

C3_Witness ==
    \E i \in Calls :
        /\ stream[i] /\ how[i] = "final"
        /\ Len(PartialTexts(yielded[i])) >= 2
        /\ PartsText(LastOf(yielded[i]).pair.parts) # <<>>

C5_FallbackFlush ==
    \A i \in Calls :
        (stream[i] /\ how[i] = "end") =>
            IF textbuffer[Frame(i)] # <<>> \/ toolCalls[Frame(i)] # <<>>
            THEN /\ Len(SelectSeq(yielded[i], IsFinalYield)) = 1
                 /\ IsFinal(LastOf(yielded[i]).pair)
                 /\ LastOf(yielded[i]).pair.FinishReason = "Stop"
                 /\ PartsText(LastOf(yielded[i]).pair.parts) = Flatten(Increments(input[i]))
            ELSE yielded[i] = <<>>

C5_Witness ==
    \E i \in Calls :
        /\ stream[i] /\ how[i] = "end"
        /\ Len(PartialTexts(yielded[i])) >= 2
        /\ LastOf(input[i]).kind = "done"
        /\ LastOf(yielded[i]).pair.FinishReason = "Stop"

C5_WitnessToolCallsOnly ==
    \E i \in Calls :
        /\ stream[i] /\ how[i] = "end"
        /\ textbuffer[Frame(i)] = <<>> /\ toolCalls[Frame(i)] # <<>>
        /\ Len(yielded[i]) = 1

\* The first "{" of the text and the object that starts there.
FirstBrace == IndexBrace(text, 0) + 1
FirstObject == ScanObject(text, FirstBrace)
FirstIsToolCall ==
    /\ IndexBrace(text, 0) # -1
    /\ FirstObject.ok
    /\ "name" \in DOMAIN FirstObject.kv
    /\ "arguments" \in DOMAIN FirstObject.kv

\* C6: when the first "{" of the text starts a valid JSON object with a string
\* name and an arguments key, the returned calls begin with that object (its
\* name, its arguments, its id key or else a fabricated id); and when no other
\* "{" follows the object, it is the only call and the returned text is the
\* input without the object's span, trimmed.
C6_RecoveredCall ==
    (returned /\ FirstIsToolCall) =>
        /\ scan.toolCalls # <<>>
        /\ scan.toolCalls[1].Name = FirstObject.kv["name"]
        /\ scan.toolCalls[1].Arguments = Marshal(FirstObject.kv["arguments"])
        /\ IF "id" \in DOMAIN FirstObject.kv
           THEN scan.toolCalls[1].ID = FirstObject.kv["id"]
           ELSE scan.toolCalls[1].ID \in FabricatedIds
        /\ IndexBrace(text, FirstObject.end) = -1 =>
              /\ Len(scan.toolCalls) = 1
              /\ TrimSpace(scan.remainder) =
                    TrimSpace(SubSeq(text, 1, FirstBrace - 1)
                              \o SubSeq(text, FirstObject.end + 1, Len(text)))

\* Some accumulated tool call of invocation i has arguments that are not
\* valid JSON.
MalformedArguments(i) ==
    \E k \in 1..Len(toolCalls[Frame(i)]) : Unmarshal(toolCalls[Frame(i)][k].Arguments).err

RECURSIVE HasNilArgsCall(_)
HasNilArgsCall(parts) ==
    IF parts = <<>> THEN FALSE
    ELSE (Head(parts).kind = "functionCall" /\ Head(parts).args.nil)
         \/ HasNilArgsCall(Tail(parts))

\* C7: when final assembly runs in the streaming path with an accumulated
\* tool call whose arguments are not valid JSON, the sequence ends with an
\* error pair and no functionCall part is built from the malformed arguments.
C7_MalformedArgumentsFatal ==
    \A i \in Calls :
        (stream[i] /\ Assembled(i) /\ MalformedArguments(i)) =>
            /\ LastOf(yielded[i]).pair.isErr
            /\ \A k \in 1..Len(yielded[i]) : ~HasNilArgsCall(yielded[i][k].pair.parts)

\* C8: in both modes an error pair is the last pair of its sequence (so there
\* is at most one), a producer that returned on an error yielded it, and no
\* error the code met went unyielded.
C8_ErrorsSurfacedOnce ==
    \A i \in Calls :
        /\ \A k \in 1..Len(yielded[i]) : yielded[i][k].pair.isErr => k = Len(yielded[i])
        /\ (pc[i] = "done" /\ how[i] = "error") =>
              (yielded[i] # <<>> /\ LastOf(yielded[i]).pair.isErr)
        /\ dropped[i] = {}

\* C9: once the streaming producer has returned, by whatever path, the HTTP
\* response body is not open; and the producer never yields again after the
\* consumer answered false.
C9_BodyReleased ==
    \A i \in Calls :
        stream[i] =>
            /\ pc[i] = "done" => body[i] # "open"
            /\ \A k \in 1..(Len(yielded[i]) - 1) : yielded[i][k].cont

C9_Witness ==
    \E i \in Calls :
        /\ stream[i] /\ pc[i] = "done" /\ how[i] = "stop"
        /\ body[i] = "closed"
        /\ ~LastOf(yielded[i]).cont

\* generateStream run alone on the lines ls, the consumer never stopping:
\* the locals it ends with, the pairs it yields and how it returned.
RECURSIVE Alone(_, _, _)
Alone(ls, loc, out) ==
    IF ls = <<>> THEN Outcome(loc, out, "", {})
    ELSE LET r == OnLine(loc, Head(ls), TRUE, TRUE)
             loc1 == Locals(r.textbuffer, r.toolCalls, r.usage)
         IN  IF r.how # "" THEN Outcome(loc1, out \o r.out, r.how, {})
             ELSE Alone(Tail(ls), loc1, out \o r.out)

PairsOf(ys) == [k \in 1..Len(ys) |-> ys[k].pair]

\* sendRequest failed for invocation i: it read no line.
RequestFailed(i) == how[i] = "error" /\ LastOf(yielded[i]).pair.err # "stream error"

\* The pairs invocation i yields when it runs alone on the input it has read
\* and ends the way it did.
AlonePairs(i) ==
    LET a == Alone(input[i], Locals(<<>>, <<>>, NilUsage), <<>>)
        loc == Locals(a.textbuffer, a.toolCalls, a.usage)
        ended == PairsOf(a.out \o AfterLoop(loc, how[i] = "error", TRUE).out)
    IN  IF RequestFailed(i) THEN <<LastOf(yielded[i]).pair>>
        ELSE IF how[i] = "stop" THEN SubSeq(PairsOf(a.out), 1, Len(yielded[i]))
        ELSE IF a.how # "" \/ how[i] = "" THEN PairsOf(a.out)
        ELSE ended

\* C10: under any interleaving of two streaming invocations, each has
\* yielded exactly the pairs it yields when run alone on its own input, and
\* while it is in its loop its text buffer, tool-call accumulator and usage
\* are those of the run alone.
C10_Isolation ==
    \A i \in Calls :
        stream[i] =>
            /\ PairsOf(yielded[i]) = AlonePairs(i)
            /\ pc[i] = "scan" =>
                  LET a == Alone(input[i], Locals(<<>>, <<>>, NilUsage), <<>>)
                  IN  FrameOf(i) = Locals(a.textbuffer, a.toolCalls, a.usage)

C10_Witness ==
    /\ \A i \in Calls : stream[i] /\ how[i] = "final" /\ Len(yielded[i]) >= 2
    /\ input[1] # input[2]
    /\ LastOf(yielded[1]).pair # LastOf(yielded[2]).pair

\* The finish reason the table of the specification gives for an upstream
\* finish_reason.
FinishTable(reason) ==
    IF reason = "stop" \/ reason = "tool_calls" THEN "Stop"
    ELSE IF reason = "length" THEN "MaxTokens"
    ELSE IF reason = "content_filter" THEN "Safety"
    ELSE "Other"

\* The response generate yielded for invocation i from the body it decoded.
Answered(i) ==
    /\ ~stream[i] /\ pc[i] = "done" /\ answer[i] # <<>>
    /\ yielded[i] # <<>> /\ ~LastOf(yielded[i]).pair.isErr

\* C11: the response built from an upstream finish_reason carries "stop" as
\* Stop, "length" as MaxTokens, "tool_calls" as Stop, "content_filter" as
\* Safety and any other string as Other, in the final response of the
\* streaming decoder and in the response of the synchronous decoder alike.
C11_FinishReasonMapping ==
    \A i \in Calls :
        /\ (stream[i] /\ how[i] = "final") =>
               LastOf(yielded[i]).pair.FinishReason = FinishTable(LastOf(input[i]).finish)
        /\ Answered(i) =>
               LastOf(yielded[i]).pair.FinishReason = FinishTable(answer[i][1].finish)

C11_Witness ==
    \E i \in Calls :
        /\ Answered(i)
        /\ answer[i][1].finish = "tool_calls"
        /\ LastOf(yielded[i]).pair.FinishReason = "Stop"

\* The functionResponse parts of the Turn handed to convertContent, in part
\* order.
IsResponsePart(p) == p.kind = "functionResponse"
ResponseParts == SelectSeq(content.Parts, IsResponsePart)

\* C12: for a Turn with at least one functionResponse part, convertContent
\* either fails on a response map that does not marshal and returns no
\* message, or returns exactly one message per functionResponse part, in part
\* order, each of role tool, without tool calls, whose content is a JSON text
\* that decodes to the part's response map and whose tool-call id is the
\* part's id (a fabricated id when the part has none); the other parts of the
\* Turn produce no message.
C12_ToolMessagesOnly ==
    \A n \in 1..Len(converted) :
        ResponseParts # <<>> =>
            IF \E k \in 1..Len(ResponseParts) : ~ResponseParts[k].marshalable
            THEN converted[n].err # "" /\ converted[n].msgs = <<>>
            ELSE /\ converted[n].err = ""
                 /\ Len(converted[n].msgs) = Len(ResponseParts)
                 /\ \A k \in 1..Len(ResponseParts) :
                        LET m == converted[n].msgs[k]
                            r == ResponseParts[k]
                        IN  /\ m.Role = "tool"
                            /\ m.ToolCalls = <<>>
                            /\ m.Content.kind = "string"
                            /\ Unmarshal(m.Content.text) = [err |-> FALSE, args |-> r.args]
                            /\ IF r.id # "" THEN m.ToolCallID = r.id
                               ELSE m.ToolCallID \in FabricatedIds

C12_Witness ==
    /\ Len(content.Parts) = 2
    /\ Len(ResponseParts) = 1
    /\ content.Parts[1].kind = "functionCall"
    /\ converted # <<>>
    /\ converted[1].err = ""
    /\ Len(converted[1].msgs) = 1
    /\ converted[1].msgs[1].Role = "tool"

\* C13: every functionCall part of every response yielded, by the
\* synchronous or the streaming decoder, has a non-empty id.
C13_IdsNonEmpty ==
    \A i \in Calls :
        \A k \in 1..Len(yielded[i]) :
            \A n \in 1..Len(yielded[i][k].pair.parts) :
                yielded[i][k].pair.parts[n].kind = "functionCall" =>
                    yielded[i][k].pair.parts[n].id # ""

\* The wire tool calls of the messages convertContent returned at call n,
\* and the functionCall parts they were built from.
RECURSIVE ToolCallsOf(_)
ToolCallsOf(msgs) ==
    IF msgs = <<>> THEN <<>> ELSE Head(msgs).ToolCalls \o ToolCallsOf(Tail(msgs))
IsCallPart(p) == p.kind = "functionCall"
CallParts == SelectSeq(content.Parts, IsCallPart)

\* C14: the arguments string of every wire tool call convertContent builds
\* is one JSON object; a functionCall part whose args map is empty or absent
\* gives "{}", and the synchronous decoder turns that tool call back into a
\* functionCall part with an empty map, without an error.
C14_ArgumentsObject ==
    \A n \in 1..Len(converted) :
        LET tcs == ToolCallsOf(converted[n].msgs)
        IN  \A k \in 1..Len(tcs) :
                /\ ScanObject(tcs[k].Arguments, 1).ok
                /\ ScanObject(tcs[k].Arguments, 1).end = Len(tcs[k].Arguments)
                /\ (Len(tcs) = Len(CallParts)
                     /\ (CallParts[k].args.nil \/ DOMAIN CallParts[k].args.kv = {})) =>
                       /\ tcs[k].Arguments = <<"{", "}">>
                       /\ SyncCallParts(<<tcs[k]>>) =
                             [err |-> FALSE,
                              parts |-> <<FunctionCallPart(tcs[k].ID, tcs[k].Name, MkMap(<<>>))>>]

\* C15: two calls of convertContent with the same Turn return the same
\* result.
C15_Idempotent ==
    Len(converted) = 2 => converted[1] = converted[2]

\* A text part: a part whose Text is set.
IsTextPart(p) == p.kind = "text" /\ p.text # <<>>

\* The texts of the parts from k on, each after the first preceded by a
\* newline.
RECURSIVE TextsJoined(_, _)
TextsJoined(ps, k) ==
    IF k > Len(ps) THEN <<>>
    ELSE (IF k > 1 THEN <<"\n">> ELSE <<>>) \o ps[k].text \o TextsJoined(ps, k + 1)

\* C16: for a Turn that has parts, all of them text parts, convertContent
\* returns exactly one message: no tool calls, the texts of the parts in
\* order joined by newlines as its content, and as its role assistant for
\* model and user for user.
C16_TextOnlyTurn ==
    \A n \in 1..Len(converted) :
        (content.Parts # <<>> /\ \A k \in 1..Len(content.Parts) : IsTextPart(content.Parts[k])) =>
            /\ converted[n].err = ""
            /\ Len(converted[n].msgs) = 1
            /\ converted[n].msgs[1].Content = StringContent(TextsJoined(content.Parts, 1))
            /\ converted[n].msgs[1].ToolCalls = <<>>
            /\ converted[n].msgs[1].ToolCallID = ""
            /\ converted[n].msgs[1].Role =
                  (IF content.Role = "model" THEN "assistant" ELSE "user")

C16_Witness ==
    /\ content.Role = "model"
    /\ Len(content.Parts) = 2
    /\ converted # <<>>
    /\ converted[1].msgs = <<openAIMessage("assistant", StringContent(<<"a", "\n", "b">>),
                                           <<>>, "")>>

\* The system message the request asks for, and the synthetic user message
\* a request with the Turns h is to end with.
SystemMessages ==
    IF extractTextFromContent(req.sys) # <<>>
    THEN <<openAIMessage("system", StringContent(extractTextFromContent(req.sys)), <<>>, "")>>
    ELSE <<>>
SyntheticMessages(h) ==
    IF Len(h) = 0 THEN <<openAIMessage("user", StringContent(HandleInstruction), <<>>, "")>>
    ELSE IF LastOf(h).Role = "user"
    THEN <<openAIMessage("user", StringContent(ContinueInstruction), <<>>, "")>>
    ELSE <<>>

\* C17: the messages of every wire request built are the system message (if
\* the system instruction has text), then the messages convertContent gives
\* for every Turn the request had when it was handed over, in Turn order,
\* then one synthetic user instruction if the request had no Turn or its last
\* Turn had role user, and nothing more if its last Turn had role model.
C17_SyntheticTrailingTurn ==
    \A n \in 1..Len(wire) :
        wire[n].err = "" =>
            \E fabss \in FabsFor(handed[n]) :
                /\ ConvertContents(handed[n], fabss, 1).err = ""
                /\ wire[n].msgs = SystemMessages
                                     \o ConvertContents(handed[n], fabss, 1).msgs
                                     \o SyntheticMessages(handed[n])

C17_Witness ==
    /\ Len(wire) = 1
    /\ Len(handed[1]) = 2
    /\ LastOf(handed[1]).Role = "user"
    /\ wire[1].err = ""
    /\ wire[1].msgs[1].Role = "system"
    /\ LastOf(wire[1].msgs).Content = StringContent(ContinueInstruction)
    /\ Len(wire[1].msgs) = 4

\* C18: after a call of GenerateContent the caller's request has the Turns
\* it had before the call, and so every call with that request object is
\* handed the same Turns.
C18_RequestNotMutated ==
    /\ handed # <<>> => req.Contents = LastOf(handed)
    /\ \A n \in 1..Len(handed) : handed[n] = handed[1]

\* C19: a request is sent once; an answer with a status outside 200..299
\* ends the invocation with the API error and a closed body; an answer with
\* a status in 200..299 yields no API error, and its body is open for the
\* decoder.
C19_TransportStatus ==
    \A i \in Calls :
        /\ Len(sent[i]) <= 1
        /\ \A k \in 1..Len(sent[i]) :
               ~sent[i][k].neterr =>
                   IF sent[i][k].status \in 200..299
                   THEN /\ \A n \in 1..Len(yielded[i]) : yielded[i][n].pair.err # "API error"
                        /\ pc[i] = "scan" => body[i] = "open"
                   ELSE /\ pc[i] = "done" /\ body[i] = "closed"
                        /\ Len(yielded[i]) = 1
                        /\ yielded[i][1].pair = ErrorPair("API error")

\* The rows Login created for the token of the last request.
CreatedFor(token) == {c \in created : c.Token = token}

\* C20: a Refresh that answers 200 with an access token was asked with a
\* refresh token that a Login created, that no Logout of it and no LogoutAll
\* of its user has revoked, and whose expiry the clock has not passed; a
\* Refresh asked with an unknown, revoked or expired token answers 401 and
\* issues no access token.
C20_RefreshLifecycle ==
    resp.op = "Refresh" =>
        /\ (resp.status = StatusOK \/ resp.access # <<>>) =>
              /\ resp.status = StatusOK /\ resp.access # <<>>
              /\ CreatedFor(resp.token) # {}
              /\ resp.token \notin revoked
              /\ \A c \in CreatedFor(resp.token) :
                     resp.at <= c.ExpiresAt /\ resp.access = <<[UserID |-> c.UserID]>>
        /\ ( /\ resp.token # ""
             /\ \/ CreatedFor(resp.token) = {}
                \/ resp.token \in revoked
                \/ \E c \in CreatedFor(resp.token) : resp.at > c.ExpiresAt )
           => (resp.status = StatusUnauthorized /\ resp.access = <<>>)

C20_Witness ==
    /\ resp.op = "Refresh" /\ resp.status = StatusOK
    /\ resp.at = 1
    /\ resp.token = "r2"
    /\ "r1" \in revoked
    /\ \E c \in created : c.Token = "r1" /\ c.UserID = resp.access[1].UserID

C20_WitnessExpired ==
    /\ resp.op = "Refresh" /\ resp.status = StatusUnauthorized
    /\ resp.token \notin revoked
    /\ \E c \in CreatedFor(resp.token) : resp.at > c.ExpiresAt

\* ---------------------------------------------------------------- C21
\* The Authorization header has the form "Bearer <token>".
BearerForm(h) == Len(h) = 3 /\ h[1] = Word("Bearer") /\ h[2] = Space /\ h[3].t # <<>>

\* The token validates under the configured secret.
SignedByServer(j) == j.wellformed /\ j.alg = "HS256" /\ j.key = Secret

\* C21: AuthRequired lets a request reach the next handler only if its
\* Authorization header is "Bearer <token>", the token validates under the
\* configured secret and is not expired, and then the context holds user_id,
\* username and is_admin equal to the token's claims; every other request
\* is answered 401 and aborted, an expired token with an error of its own.
C21_AuthRequired ==
    ctx # NoContext =>
        LET h == ctx.header
            signed == BearerForm(h) /\ SignedByServer(h[3].t[1])
            expired == signed /\ ctx.at >= h[3].t[1].claims.ExpiresAt
        IN  /\ ctx.next <=> (signed /\ ~expired)
            /\ ctx.next =>
                 /\ ~ctx.aborted
                 /\ ctx.status = 0
                 /\ ctx.keys = <<[user_id |-> h[3].t[1].claims.UserID,
                                  username |-> h[3].t[1].claims.Username,
                                  is_admin |-> h[3].t[1].claims.IsAdmin]>>
            /\ ~ctx.next =>
                 /\ ctx.aborted
                 /\ ctx.status = StatusUnauthorized
                 /\ ctx.keys = <<>>
                 /\ (ctx.error = "token expired") <=> expired

\* A request with an admin's token, issued earlier and still valid, went through.
C21_Witness ==
    /\ ctx.next
    /\ ctx.keys # <<>>
    /\ ctx.keys[1].is_admin
    /\ ctx.keys[1].user_id = 2

\* A request with an expired token of the server was answered 401.
C21_WitnessExpired ==
    /\ ctx.error = "token expired"
    /\ ctx.aborted

\* ---------------------------------------------------------------- C22
\* The request carries a duration: the pointer is set and the string is not empty.
HasDuration(r) == r.Duration # <<>> /\ r.Duration[1] # <<>>

\* The iCalendar rules, per type.
RulesHold(r) ==
    \/ /\ r.Type = "VEVENT"
       /\ r.DtStart # <<>>
       /\ (r.DtEnd # <<>>) # HasDuration(r)
    \/ /\ r.Type = "VTODO"
       /\ r.DtStart # <<>> \/ r.Due # <<>>
    \/ /\ r.Type = "VJOURNAL"
       /\ r.DtStart # <<>>
    \/ /\ r.Type = "VFREEBUSY"
       /\ r.DtStart # <<>>
       /\ r.DtEnd # <<>>

C22_WitnessStored ==
    /\ cal.op = "Create"
    /\ cal.request[1].Type = "VTODO"
    /\ cal.request[1].DtStart = <<>>
    /\ cal.err = ""
    /\ Len(items) = Len(cal.before) + 1

\* ---------------------------------------------------------------- C30
\* The rows of the table before the last call that another user owns and id names.
ForeignRows(c) ==
    {k \in 1..Len(c.before) :
        /\ c.before[k].ID = c.id
        /\ ~c.before[k].DeletedAt
        /\ c.before[k].UserID # c.userID}

\* C30: whatever create, get, update, delete, list and search calls two
\* users have made, a call for one user returns only items of that user,
\* leaves every row of another user as it was, adds only rows of that user,
\* and an update or delete naming another user's item reports not-found.
C30_Isolation ==
    cal.op # "" =>
        /\ cal.op # "Create" => \A k \in 1..Len(cal.out) : cal.out[k].UserID = cal.userID
        /\ Len(items) >= Len(cal.before)
        /\ \A k \in 1..Len(cal.before) :
              cal.before[k].UserID # cal.userID => items[k] = cal.before[k]
        /\ \A k \in (Len(cal.before) + 1)..Len(items) : items[k].UserID = cal.userID
        /\ cal.op \in {"Update", "Delete"} /\ ForeignRows(cal) # {} =>
              cal.err = "ErrCalendarItemNotFound"

\* A user asked to update an item another user owns and was told not-found.
C30_Witness ==
    /\ cal.op = "Update"
    /\ ForeignRows(cal) # {}
    /\ cal.err = "ErrCalendarItemNotFound"
    /\ items = cal.before

\* A list call returned two items of the caller while another user was asking too.
C30_WitnessList ==
    /\ cal.op = "List"
    /\ Len(cal.out) = 2

\* ---------------------------------------------------------------- C23
\* The last non-empty id delivered under wire index j ("" when none).
RECURSIVE LastIDAt(_, _)
LastIDAt(deltas, j) ==
    IF deltas = <<>> THEN ""
    ELSE LET d == deltas[Len(deltas)]
         IN  IF d.Index = j /\ d.ID # "" THEN d.ID
             ELSE LastIDAt(SubSeq(deltas, 1, Len(deltas) - 1), j)

\* The delta entries of the lines read, in arrival order.
RECURSIVE AllDeltas(_)
AllDeltas(ls) ==
    IF ls = <<>> THEN <<>> ELSE Head(ls).toolCalls \o AllDeltas(Tail(ls))

\* C23: while the producer is in its loop, every wire index j carried by a
\* delta entry read so far has accumulator slot j, and that slot holds the id
\* and the argument fragments delivered under index j; so calls streamed
\* under indices 0 and 1 in separate single-entry chunks are two entries.
C23_MergedByIndex ==
    \A i \in Calls :
        (stream[i] /\ pc[i] = "scan") =>
            \A j \in Indexes(input[i]) :
                /\ Len(toolCalls[Frame(i)]) > j
                /\ toolCalls[Frame(i)][j + 1].ID = LastIDAt(AllDeltas(input[i]), j)
                /\ toolCalls[Frame(i)][j + 1].Arguments = Delivered(input[i], j)

\* ---------------------------------------------------------------- C24
\* The values of field f ("ID", "Type", "Name") the delta entries carry.
Carried(deltas, f) == {deltas[n][f] : n \in 1..Len(deltas)} \ {""}

\* C24: a line read by the producer never clears streaming state: every
\* accumulator slot stays, and its id, type and name are what they were or a
\* non-empty value the line's delta entries carry (so entries with an empty
\* id, type or name leave them alone); a line without delta.content leaves
\* the text buffer, a line without tool calls the accumulator, a line
\* without usage the stored usage.
C24_AbsentFieldsKeepState ==
    [][\A i \in Calls :
          (stream[i] /\ input'[i] # input[i]) =>
              LET line == input'[i][Len(input'[i])]
                  old == toolCalls[Frame(i)]
                  new == toolCalls'[Frame(i)]
              IN  /\ Len(new) >= Len(old)
                  /\ \A k \in 1..Len(old) :
                        /\ new[k].ID \in {old[k].ID} \cup Carried(line.toolCalls, "ID")
                        /\ new[k].Type \in {old[k].Type} \cup Carried(line.toolCalls, "Type")
                        /\ new[k].Name \in {old[k].Name} \cup Carried(line.toolCalls, "Name")
                  /\ line.content = <<>> => textbuffer'[Frame(i)] = textbuffer[Frame(i)]
                  /\ line.toolCalls = <<>> => new = old
                  /\ line.usage.nil => usage'[Frame(i)] = usage[Frame(i)]]_vars

\* After a tool call with an id and a usage were stored, a chunk that carries
\* only an argument fragment was read, and both are still there.
C24_Witness ==
    /\ pc[1] = "scan"
    /\ Len(input[1]) = 3
    /\ input[1][3] = Chunk(<<>>, <<F0>>, NilUsage, "")
    /\ usage[Frame(1)] = U1
    /\ toolCalls[Frame(1)] # <<>>
    /\ toolCalls[Frame(1)][1].ID = "c0"
    /\ toolCalls[Frame(1)][1].Name = "f"
    /\ toolCalls[Frame(1)][1].Arguments = <<"{", "}">>

\* ---------------------------------------------------------------- C25
\* C25: every pass through the loop of parseToolCallsFromText moves the
\* cursor forward or leaves the loop, whatever the text (a `{` that does not
\* decode included), so the function returns.
C25_CursorAdvances ==
    (~returned /\ scan.running) =>
        \A fab \in FabricatedIds :
            LET n == ParseIteration(text, scan, fab)
            IN  n.cursor > scan.cursor \/ ~n.running

\* ---------------------------------------------------------------- C26
\* C26: when the text from a `{` on does not decode as a JSON object, the
\* pass keeps the `{` as literal text, adds no call and resumes one
\* character after it.
C26_UndecodableBraceLiteral ==
    (~returned /\ scan.running) =>
        \A fab \in FabricatedIds :
            LET rel == IndexBrace(text, scan.cursor)
                braceIndex == rel + scan.cursor
                n == ParseIteration(text, scan, fab)
            IN  (rel # -1 /\ Decode(Slice(text, braceIndex, Len(text))).err) =>
                    /\ n.cursor = braceIndex + 1
                    /\ n.remainder = scan.remainder \o Slice(text, scan.cursor, braceIndex + 1)
                    /\ n.toolCalls = scan.toolCalls

\* ---------------------------------------------------------------- C27
\* The usage of the last line that carries one (nil when none does).
RECURSIVE LastUsage(_)
LastUsage(ls) ==
    IF ls = <<>> THEN NilUsage
    ELSE IF ~ls[Len(ls)].usage.nil THEN ls[Len(ls)].usage
    ELSE LastUsage(SubSeq(ls, 1, Len(ls) - 1))

\* C27: the usage of the final response of a stream is the usage of the last
\* chunk read that carried one, whatever else the chunk holds (a chunk with
\* no choices included), and absent only if no chunk carried one.
C27_UsageLastWriteWins ==
    \A i \in Calls :
        (stream[i] /\ Assembled(i)) =>
            LastOf(yielded[i]).pair.UsageMetadata = buildUsageMetadata(LastUsage(input[i]))

\* ---------------------------------------------------------------- C28
IsThought(p) == p.kind = "thought"
IsPlainText(p) == p.kind = "text"
NotEmpty(t) == t # <<>>

\* C28: the response of the synchronous decoder holds the reasoning parts
\* first (one per non-empty reasoning text, in order), then at most one text
\* part, then one functionCall part per tool call in their order; when the
\* message carries structured tool calls they are the ones emitted and the
\* content is passed on as it came (no extraction), otherwise the calls are
\* those recovered from the content.
C28_SyncPartOrder ==
    \A i \in Calls :
        Answered(i) =>
            LET r == LastOf(answer[i])
                parts == LastOf(yielded[i]).pair.parts
                thoughts == SelectSeq(parts, IsThought)
                texts == SelectSeq(parts, IsPlainText)
                calls == SelectSeq(parts, IsCallPart)
                reasons == SelectSeq(r.reasoning, NotEmpty)
            IN  /\ parts = thoughts \o texts \o calls
                /\ Len(texts) <= 1
                /\ Len(thoughts) = Len(reasons)
                /\ \A k \in 1..Len(thoughts) : thoughts[k].text = reasons[k]
                /\ r.toolCalls # <<>> =>
                      /\ Len(calls) = Len(r.toolCalls)
                      /\ \A k \in 1..Len(calls) :
                            /\ calls[k].id = r.toolCalls[k].ID
                            /\ calls[k].name = r.toolCalls[k].Name
                      /\ texts = FinalTextParts(r.content)
                /\ r.toolCalls = <<>> =>
                      \E fab \in FabricatedIds :
                          LET recovered == parseToolCallsFromText(r.content, fab).toolCalls
                          IN  /\ Len(calls) = Len(recovered)
                              /\ \A k \in 1..Len(calls) :
                                    /\ calls[k].id = recovered[k].ID
                                    /\ calls[k].name = recovered[k].Name

\* A message with two reasoning texts, content and two structured tool calls
\* was decoded into five parts.
C28_Witness ==
    /\ Answered(1)
    /\ Len(LastOf(answer[1]).toolCalls) = 2
    /\ Len(LastOf(yielded[1]).pair.parts) = 5

\* A message whose content is a tool call as text, beside a structured tool
\* call, was decoded with the content as its text part.
C28_WitnessNoExtraction ==
    /\ Answered(1)
    /\ LastOf(answer[1]).toolCalls # <<>>
    /\ LastOf(answer[1]).content = <<"{", "N", "A", "{", "}", "}">>
    /\ LastOf(yielded[1]).pair.parts[1] = TextPart(<<"{", "N", "A", "{", "}", "}">>)

\* ---------------------------------------------------------------- C29
\* The content of a wire message is not empty.
HasWireContent(msg) ==
    \/ msg.Content.kind = "string" /\ msg.Content.text # <<>>
    \/ msg.Content.kind = "array" /\ msg.Content.items # <<>>

\* C29: every message convertContent returns carries non-empty content or
\* at least one tool call; a Turn that contributes neither text nor a
\* multimodal sub-part nor a function call or response gives no message.
C29_NoEmptyMessage ==
    (converted # <<>> /\ LastOf(converted).err = "") =>
        \A k \in 1..Len(LastOf(converted).msgs) :
            \/ HasWireContent(LastOf(converted).msgs[k])
            \/ Len(LastOf(converted).msgs[k].ToolCalls) > 0

====
